---- MODULE Spec2Model ----
(***************************************************************************)
(* A state-machine model of telegram-ms-cognitive-bot: the operation-code  *)
(* tables built by init, the selection tokens of the inline keyboards, the *)
(* handlers processUpdate and processCallbackQuery, and the processImage   *)
(* goroutine a selection spawns.                                           *)
(*                                                                         *)
(* Go strings on which the code computes (command labels, tokens, message  *)
(* texts searched with strings.Contains) are sequences of one-character    *)
(* strings; texts the code only passes through are TLA+ strings.           *)
(***************************************************************************)
EXTENDS Integers, Sequences, FiniteSets, TLC

VARIABLES
  pc,            \* the process: "boot" (before init), "running", "crashed" (panic)
  allCmdsV,      \* the slice allCmds that init ranges over
  shortCmdsMap,  \* map[CognitiveCommand]string
  cmdsMap,       \* map[string]CognitiveCommand
  chat,          \* the messages of the chat, a message's id is its index
  sels,          \* the selections (callback queries) received so far, with their tasks
  cur,           \* index in sels of the selection processCallbackQuery is handling, or 0
  codec,         \* the token round trip: an operation, a reference, its token decoded
  canvas,        \* the drawing loop on the faces of a detection result
  quota          \* the messages and the selections the user is still to send

vars == <<pc, allCmdsV, shortCmdsMap, cmdsMap, chat, sels, cur, codec, canvas, quota>>

(***************************************************************************)
(* Bounds of the model.                                                    *)
(***************************************************************************)
MaxSubmissions == 1   \* messages the user sends
MaxSelections == 2    \* callback queries the user sends: cancels, then any token
MaxInFlight == 2      \* callback queries the user sends, of the tokens of PairTokens
MaxItems == 1         \* captions, tags, words or lines in one analysis result
MaxRefLen == 3        \* length of the file references of the round trip
MaxExtraCmds == 2     \* commands added in front of / behind allCmds
MaxFaces == 2         \* faces in one detection result
MaxMissing == 1       \* landmarks a face lacks, unless it has none
MaxWidth == 16        \* width of a face rectangle
MaxIndex == 59        \* index handed to colorForIndex
MaxInstances == 7     \* faces in one detection result, for the numbering
MaxScores == 2        \* entries of an attribute map, for the order of the lines
MaxCoord == 1         \* largest coordinate of an eye landmark

\* the text of messageHelp
messageHelpText ==
  "Send any image to this bot, and select one of the following actions:\n\n- Emotion Recognition\n- Face Detection\n- Describe This Image\n- OCR\n- Handwritten Text Recognition\n- Tag This Image\n- Censor Eyes\n- Mask Faces\n\nthen it will send the result message and/or image back to you.\n\n* Github: https://github.com/meinside/telegram-ms-cognitive-bot\n"

(***************************************************************************)
(* Go strings.  A string is a sequence of pieces; a piece is one character *)
(* or one of the literals of the program below, which Chars spells out.    *)
(* Flatten gives the characters of a string: the code's indexing, slicing, *)
(* and searching are done on them.  Tokens and file references are kept as  *)
(* characters and commands as their one literal, so = compares them as Go  *)
(* compares strings.                                                       *)
(***************************************************************************)
Chars(piece) ==
  CASE piece = "Emotion Recognition" ->
         <<"E", "m", "o", "t", "i", "o", "n", " ", "R", "e", "c", "o", "g", "n", "i",
           "t", "i", "o", "n">>
    [] piece = "Face Detection" ->
         <<"F", "a", "c", "e", " ", "D", "e", "t", "e", "c", "t", "i", "o", "n">>
    [] piece = "Describe This Image" ->
         <<"D", "e", "s", "c", "r", "i", "b", "e", " ", "T", "h", "i", "s", " ", "I",
           "m", "a", "g", "e">>
    [] piece = "OCR" ->
         <<"O", "C", "R">>
    [] piece = "Handwritten Text Recognition" ->
         <<"H", "a", "n", "d", "w", "r", "i", "t", "t", "e", "n", " ", "T", "e", "x",
           "t", " ", "R", "e", "c", "o", "g", "n", "i", "t", "i", "o", "n">>
    [] piece = "Tag This Image" ->
         <<"T", "a", "g", " ", "T", "h", "i", "s", " ", "I", "m", "a", "g", "e">>
    [] piece = "Censor Eyes" ->
         <<"C", "e", "n", "s", "o", "r", " ", "E", "y", "e", "s">>
    [] piece = "Mask Faces" ->
         <<"M", "a", "s", "k", " ", "F", "a", "c", "e", "s">>
    [] piece = "Choose action for this image:" ->
         <<"C", "h", "o", "o", "s", "e", " ", "a", "c", "t", "i", "o", "n", " ", "f",
           "o", "r", " ", "t", "h", "i", "s", " ", "i", "m", "a", "g", "e",
           ":">>
    [] piece = "Unprocessable message." ->
         <<"U", "n", "p", "r", "o", "c", "e", "s", "s", "a", "b", "l", "e", " ", "m",
           "e", "s", "s", "a", "g", "e", ".">>
    [] piece = "Failed to get file from the server." ->
         <<"F", "a", "i", "l", "e", "d", " ", "t", "o", " ", "g", "e", "t", " ", "f",
           "i", "l", "e", " ", "f", "r", "o", "m", " ", "t", "h", "e", " ",
           "s", "e", "r", "v", "e", "r", ".">>
    [] piece = "Canceled." ->
         <<"C", "a", "n", "c", "e", "l", "e", "d", ".">>
    [] piece = messageHelpText ->
         <<"S", "e", "n", "d", " ", "a", "n", "y", " ", "i", "m", "a", "g", "e", " ",
           "t", "o", " ", "t", "h", "i", "s", " ", "b", "o", "t", ",", " ",
           "a", "n", "d", " ", "s", "e", "l", "e", "c", "t", " ", "o", "n",
           "e", " ", "o", "f", " ", "t", "h", "e", " ", "f", "o", "l", "l",
           "o", "w", "i", "n", "g", " ", "a", "c", "t", "i", "o", "n", "s",
           ":", "\n", "\n", "-", " ", "E", "m", "o", "t", "i", "o", "n", " ",
           "R", "e", "c", "o", "g", "n", "i", "t", "i", "o", "n", "\n", "-",
           " ", "F", "a", "c", "e", " ", "D", "e", "t", "e", "c", "t", "i",
           "o", "n", "\n", "-", " ", "D", "e", "s", "c", "r", "i", "b", "e",
           " ", "T", "h", "i", "s", " ", "I", "m", "a", "g", "e", "\n", "-",
           " ", "O", "C", "R", "\n", "-", " ", "H", "a", "n", "d", "w", "r",
           "i", "t", "t", "e", "n", " ", "T", "e", "x", "t", " ", "R", "e",
           "c", "o", "g", "n", "i", "t", "i", "o", "n", "\n", "-", " ", "T",
           "a", "g", " ", "T", "h", "i", "s", " ", "I", "m", "a", "g", "e",
           "\n", "-", " ", "C", "e", "n", "s", "o", "r", " ", "E", "y", "e",
           "s", "\n", "-", " ", "M", "a", "s", "k", " ", "F", "a", "c", "e",
           "s", "\n", "\n", "t", "h", "e", "n", " ", "i", "t", " ", "w", "i",
           "l", "l", " ", "s", "e", "n", "d", " ", "t", "h", "e", " ", "r",
           "e", "s", "u", "l", "t", " ", "m", "e", "s", "s", "a", "g", "e",
           " ", "a", "n", "d", "/", "o", "r", " ", "i", "m", "a", "g", "e",
           " ", "b", "a", "c", "k", " ", "t", "o", " ", "y", "o", "u", ".",
           "\n", "\n", "*", " ", "G", "i", "t", "h", "u", "b", ":", " ", "h",
           "t", "t", "p", "s", ":", "/", "/", "g", "i", "t", "h", "u", "b",
           ".", "c", "o", "m", "/", "m", "e", "i", "n", "s", "i", "d", "e",
           "/", "t", "e", "l", "e", "g", "r", "a", "m", "-", "m", "s", "-",
           "c", "o", "g", "n", "i", "t", "i", "v", "e", "-", "b", "o", "t",
           "\n">>
    [] piece = "Processing '" ->
         <<"P", "r", "o", "c", "e", "s", "s", "i", "n", "g", " ", "'">>
    [] piece = "' on received image..." ->
         <<"'", " ", "o", "n", " ", "r", "e", "c", "e", "i", "v", "e", "d", " ", "i",
           "m", "a", "g", "e", ".", ".", ".">>
    [] piece = "image" ->
         <<"i", "m", "a", "g", "e">>
    [] piece = "image/" ->
         <<"i", "m", "a", "g", "e", "/">>
    [] piece = "image/png" ->
         <<"i", "m", "a", "g", "e", "/", "p", "n", "g">>
    [] piece = "application/pdf" ->
         <<"a", "p", "p", "l", "i", "c", "a", "t", "i", "o", "n", "/", "p", "d", "f">>
    [] piece = " (90.000%)" ->
         <<" ", "(", "9", "0", ".", "0", "0", "0", "%", ")">>
    [] piece = "[Face #1]" ->
         <<"[", "F", "a", "c", "e", " ", "#", "1", "]">>
    [] piece = "Text Recognition" ->
         <<"T", "e", "x", "t", " ", "R", "e", "c", "o", "g", "n", "i", "t", "i", "o",
           "n">>
    [] piece = "Object Detection" ->
         <<"O", "b", "j", "e", "c", "t", " ", "D", "e", "t", "e", "c", "t", "i", "o",
           "n">>
    [] piece = "Adult Content" ->
         <<"A", "d", "u", "l", "t", " ", "C", "o", "n", "t", "e", "n", "t">>
    [] OTHER -> <<piece>>

RECURSIVE Flatten(_)
Flatten(s) == IF s = <<>> THEN <<>> ELSE Chars(Head(s)) \o Flatten(Tail(s))

(***************************************************************************)
(* The constants of the program.                                           *)
(***************************************************************************)
Emotion == <<"Emotion Recognition">>
Face == <<"Face Detection">>
Describe == <<"Describe This Image">>
Ocr == <<"OCR">>
Handwritten == <<"Handwritten Text Recognition">>
Tag == <<"Tag This Image">>
CensorEyes == <<"Censor Eyes">>
MaskFaces == <<"Mask Faces">>
messageActionImage == <<"Choose action for this image:">>
messageUnprocessable == <<"Unprocessable message.">>
messageFailedToGetFile == <<"Failed to get file from the server.">>
messageCanceled == <<"Canceled.">>
messageHelp == <<messageHelpText>>

\* commandCancel = "cancel"; compared with tokens, character by character
commandCancel == <<"c", "a", "n", "c", "e", "l">>

\* allCmds, in declaration order
allCmds == <<Emotion, Face, Describe, Ocr, Handwritten, Tag, CensorEyes, MaskFaces>>

\* the value of a missing key of a Go map of strings, and of an unset string
ZeroString == <<>>

(***************************************************************************)
(* Go maps: a function on the keys present.                                *)
(***************************************************************************)
EmptyMap == [k \in {} |-> ZeroString]

\* m[k] of Go: the zero value when the key is absent
MapGet(m, k) == IF k \in DOMAIN m THEN m[k] ELSE ZeroString

\* m[k] = v
MapPut(m, k, v) == [x \in (DOMAIN m) \cup {k} |-> IF x = k THEN v ELSE m[x]]

(***************************************************************************)
(* init: the loop over allCmds that fills shortCmdsMap and cmdsMap.        *)
(***************************************************************************)
\* the last character of the label taken for the first
firstLetterAlt(c) == <<Flatten(c)[Len(Flatten(c))]>>

\* string(string(c)[0])
firstLetter(c) == <<Flatten(c)[1]>>

RECURSIVE initLoop(_, _, _)
initLoop(cmds, short, long) ==
  IF cmds = <<>>
    THEN [shortCmdsMap |-> short, cmdsMap |-> long]
    ELSE LET c == Head(cmds)
         IN initLoop(Tail(cmds),
                     MapPut(short, c, firstLetter(c)),
                     MapPut(long, firstLetter(c), c))

(***************************************************************************)
(* The dispatch token.                                                     *)
(***************************************************************************)
\* fmt.Sprintf("%s%s", shortCmdsMap[cmd], fileId) with the code put last
tokenForAlt(short, cmd, fileId) == fileId \o MapGet(short, cmd)

\* fmt.Sprintf("%s%s", shortCmdsMap[cmd], fileId)
tokenFor(short, cmd, fileId) == MapGet(short, cmd) \o fileId

\* cmdsMap[string(data[0])] and string(data[1:]); data is not empty
decodeCommand(long, data) == MapGet(long, <<Flatten(data)[1]>>)

decodeFileId(data) == Tail(Flatten(data))

\* a lookup that stores the zero value under a key it did not find
afterLookupAlt(long, data) ==
  LET key == <<Flatten(data)[1]>>
  IN IF key \in DOMAIN long THEN long ELSE MapPut(long, key, ZeroString)

\* line 92: cmdsMap after the index expression cmdsMap[string(data[0])]; the
\* read of a Go map leaves it as it was, also when the key is absent
afterLookup(long, data) == long

\* strings.Title(commandCancel): the first letter of the word in upper case
UpperCase(ch) ==
  CASE ch = "c" -> "C"
    [] ch = "a" -> "A"
    [] ch = "n" -> "N"
    [] ch = "e" -> "E"
    [] ch = "l" -> "L"
    [] OTHER -> ch

Title(word) ==
  LET w == Flatten(word) IN IF w = <<>> THEN w ELSE <<UpperCase(w[1])>> \o Tail(w)

\* genImageInlineKeyboards: one button per command of cmds, and the cancel button
genImageInlineKeyboards(cmds, short, fileId) ==
  { [text |-> cmds[i], data |-> tokenFor(short, cmds[i], fileId)] : i \in DOMAIN cmds }
    \cup { [text |-> Title(commandCancel), data |-> commandCancel] }

\* strings.Contains(s, sub)
Contains(s, sub) ==
  LET cs == Flatten(s)
      csub == Flatten(sub)
  IN \E i \in 1..(Len(cs) + 1) :
       /\ i + Len(csub) - 1 <= Len(cs)
       /\ SubSeq(cs, i, i + Len(csub) - 1) = csub

\* strings.HasPrefix(s, prefix)
HasPrefix(s, prefix) ==
  LET cs == Flatten(s)
      cp == Flatten(prefix)
  IN Len(cp) <= Len(cs) /\ SubSeq(cs, 1, Len(cp)) = cp

\* len(s)
StrLen(s) == Len(Flatten(s))

\* the literals of the calls of strings.Contains and strings.HasPrefix
ImageWord == <<"image">>
ImageMimePrefix == <<"image/">>

\* fmt.Sprintf("Processing '%s' on received image...", command)
messageProcessing(command) == <<"Processing '">> \o command \o <<"' on received image...">>

(***************************************************************************)
(* The environment: what the user sends.                                   *)
(***************************************************************************)
\* file ids issued by the platform; FileLarge begins with the code of CensorEyes
FileSmall == <<"s">>
FileLarge == <<"C", "a">>
FileDoc == <<"d">>

MimePng == <<"image/png">>
MimePdf == <<"application/pdf">>

\* a photo in two sizes, an image document, another document, a document whose
\* optional MIME type is not given (Document.MimeType is nil), a plain text
Submissions ==
  { [kind |-> "photo", photo |-> <<FileSmall, FileLarge>>, docFileId |-> ZeroString,
     hasMime |-> FALSE, mime |-> ZeroString],
    [kind |-> "document", photo |-> <<>>, docFileId |-> FileDoc,
     hasMime |-> TRUE, mime |-> MimePng],
    [kind |-> "document", photo |-> <<>>, docFileId |-> FileDoc,
     hasMime |-> TRUE, mime |-> MimePdf],
    [kind |-> "document", photo |-> <<>>, docFileId |-> FileDoc,
     hasMime |-> FALSE, mime |-> ZeroString],
    [kind |-> "text", photo |-> <<>>, docFileId |-> ZeroString,
     hasMime |-> FALSE, mime |-> ZeroString] }

\* the sub field of a message the bot sent
NoSubmission ==
  [kind |-> "none", photo |-> <<>>, docFileId |-> ZeroString,
   hasMime |-> FALSE, mime |-> ZeroString]

\* tokens no keyboard of this process offers: the empty one, an unregistered code
TokenEmpty == <<>>
TokenUnknown == <<"Z">> \o FileLarge
StaleTokens == {TokenEmpty, TokenUnknown}

(***************************************************************************)
(* processUpdate                                                           *)
(***************************************************************************)
Message(from, sub, text, replyTo, markup) ==
  [from |-> from, sub |-> sub, text |-> text, replyTo |-> replyTo,
   markup |-> markup, deleted |-> FALSE, result |-> FALSE]

\* update.Message.HasPhoto()
HasPhoto(sub) == Len(sub.photo) > 0

\* update.Message.HasDocument()
HasDocument(sub) == sub.kind = "document"

\* update.Message.Photo[lastIndex].FileId, or update.Message.Document.FileId
SubmissionFileId(sub) ==
  IF HasPhoto(sub) THEN sub.photo[Len(sub.photo)] ELSE sub.docFileId

\* line 60: *update.Message.Document.MimeType of a nil MimeType panics
MimePanics(sub) == ~HasPhoto(sub) /\ HasDocument(sub) /\ ~sub.hasMime

\* the two branches of processUpdate that offer the keyboard
IsImageSubmission(sub) ==
  \/ HasPhoto(sub)
  \/ HasDocument(sub) /\ sub.hasMime /\ HasPrefix(sub.mime, ImageMimePrefix)

\* the message processUpdate sends in reply to message id, with its reply markup
ReplyFor(sub, id) ==
  IF IsImageSubmission(sub)
    THEN Message("bot", NoSubmission, messageActionImage, id,
                 genImageInlineKeyboards(allCmdsV, shortCmdsMap, SubmissionFileId(sub)))
    ELSE Message("bot", NoSubmission, messageHelp, id, {})

\* an update loop that takes the next update only when no task is under way
IdleAlt ==
  /\ pc = "running" /\ cur = 0
  /\ \A i \in DOMAIN sels : sels[i].task.tpc \in {"none", "done"}

\* main.go lines 191-203: the callback takes the next update when the handler of
\* the one before has returned; the tasks the handlers started are not waited for
Idle == pc = "running" /\ cur = 0

\* lines 46, 70-76: what processUpdate returns, kept with the message it handled
updateResult(sub, ok) == ok /\ ~MimePanics(sub)

\* lines 45-77; ok is the result of b.SendMessage.  The panic of line 60 is
\* not recovered, and the process ends
processUpdate(sub, ok) ==
  /\ Idle
  /\ quota.subs > 0
  /\ quota' = [quota EXCEPT !.subs = @ - 1]
  /\ MimePanics(sub) => ok   \* SendMessage is not called
  /\ LET received ==
           Append(chat, [Message("user", sub, ZeroString, 0, {})
                           EXCEPT !.result = updateResult(sub, ok)])
     IN chat' = IF ok /\ ~MimePanics(sub)
                  THEN Append(received, ReplyFor(sub, Len(received)))
                  ELSE received
  /\ pc' = IF MimePanics(sub) THEN "crashed" ELSE pc
  /\ UNCHANGED <<allCmdsV, shortCmdsMap, cmdsMap, sels, cur, codec, canvas>>

(***************************************************************************)
(* processCallbackQuery.  A selection is a record of sels; the handler     *)
(* runs in three steps, one per exchange with the platform after which a   *)
(* task may run: the decoding with GetFile and the go statement, then      *)
(* AnswerCallbackQuery, then EditMessageText.                              *)
(***************************************************************************)
NoTask ==
  [tpc |-> "none", command |-> ZeroString, messageIdToDelete |-> 0,
   message |-> ZeroString, errorMessage |-> "", out |-> <<>>, replyTo |-> "none"]

\* the goroutine started by: go processImage(b, chatId, messageIdToDelete, fileUrl, command)
NewTask(messageIdToDelete, command) ==
  [tpc |-> "analyze", command |-> command, messageIdToDelete |-> messageIdToDelete,
   message |-> ZeroString, errorMessage |-> "", out |-> <<>>, replyTo |-> "none"]

\* the message a prompt replies to taken for the prompt
queryReplyToMessageId(m) == chat[m].replyTo

\* query.Message.MessageId, handed to processImage as messageIdToDelete (line 99):
\* query.Message is the message the pressed keyboard is attached to
queryMessageId(m) == m

\* the prompts: the bot's replies to an image-bearing submission
IsPrompt(m) ==
  /\ m \in DOMAIN chat
  /\ chat[m].from = "bot"
  /\ IsImageSubmission(chat[chat[m].replyTo].sub)

\* the tokens of the keyboard that prompt m was sent with
OfferedTokens(m) ==
  { b.data : b \in genImageInlineKeyboards(allCmdsV, shortCmdsMap,
                      SubmissionFileId(chat[chat[m].replyTo].sub)) }

\* the go statement reached without the comparison of line 89
StartsTaskAlt(data, text, fileOk) == fileOk /\ Contains(text, ImageWord)

\* the go statement reached without the look at the prompt's text of line 98
StartsTaskUnguarded(data, text, fileOk) == data # commandCancel /\ fileOk

\* the go statement reached only with a command cmdsMap holds
StartsTaskChecked(data, text, fileOk) ==
  /\ data # commandCancel
  /\ decodeCommand(cmdsMap, data) # ZeroString
  /\ fileOk
  /\ Contains(text, ImageWord)

\* lines 89-99: whether the go statement is reached, the file found (fileOk) or not
StartsTask(data, text, fileOk) ==
  data # commandCancel /\ fileOk /\ Contains(text, ImageWord)

\* the failure of GetFile reported like a stale prompt
NoticeForAlt(data, text, fileOk) ==
  IF data = commandCancel THEN messageCanceled
  ELSE IF fileOk /\ Contains(text, ImageWord)
    THEN messageProcessing(decodeCommand(cmdsMap, data))
    ELSE messageUnprocessable

\* lines 89-118: the text the prompt is to be replaced by
NoticeFor(data, text, fileOk) ==
  IF data = commandCancel THEN messageCanceled
  ELSE IF ~fileOk THEN messageFailedToGetFile
  ELSE IF Contains(text, ImageWord)
    THEN messageProcessing(decodeCommand(cmdsMap, data))
    ELSE messageUnprocessable

\* lines 86-118: data[0] of an empty token panics, and the process ends
pcqStart(m, data, fileOk) ==
  /\ Idle
  /\ quota.sels > 0
  /\ quota' = [quota EXCEPT !.sels = @ - 1]
  /\ IsPrompt(m)
  /\ ~chat[m].deleted
  /\ data \in OfferedTokens(m) \cup StaleTokens
  /\ data \in {commandCancel, <<>>} => fileOk   \* GetFile is not called
  /\ LET text == chat[m].text
         decoded == data # commandCancel /\ data # <<>>
         command == IF decoded THEN decodeCommand(cmdsMap, data) ELSE ZeroString
         sel == [data |-> data, msgId |-> m, text |-> text,
                 command |-> command,
                 fileId |-> IF decoded THEN decodeFileId(data) ELSE ZeroString,
                 getFile |-> IF ~decoded THEN "none" ELSE IF fileOk THEN "ok" ELSE "fail",
                 message |-> IF data = <<>> THEN ZeroString ELSE NoticeFor(data, text, fileOk),
                 hpc |-> IF data = <<>> THEN "panic" ELSE "answer",
                 answered |-> "none", edited |-> "none", result |-> FALSE,
                 log |-> IF decoded /\ ~fileOk
                           THEN <<"Failed to get file from url">> ELSE <<>>,
                 task |-> IF data # <<>> /\ StartsTask(data, text, fileOk)
                            THEN NewTask(queryMessageId(m), command) ELSE NoTask]
     IN /\ sels' = Append(sels, sel)
        /\ IF data = <<>>
             THEN pc' = "crashed" /\ cur' = cur
             ELSE pc' = pc /\ cur' = Len(sels) + 1
        /\ cmdsMap' = IF decoded THEN afterLookup(cmdsMap, data) ELSE cmdsMap
  /\ UNCHANGED <<allCmdsV, shortCmdsMap, chat, codec, canvas>>

Outcome(ok) == IF ok THEN "ok" ELSE "fail"

\* EditMessageText called whatever AnswerCallbackQuery returned
afterAnswerAlt(ok) == "edit"

\* lines 121-134: EditMessageText is called inside the if of apiResult.Ok
afterAnswer(ok) == IF ok THEN "edit" ELSE "done"

\* lines 120-134: b.AnswerCallbackQuery(query.Id, nil)
pcqAnswer(ok) ==
  /\ pc = "running"
  /\ cur # 0
  /\ sels[cur].hpc = "answer"
  /\ sels' = [sels EXCEPT ![cur].hpc = afterAnswer(ok),
                          ![cur].answered = Outcome(ok),
                          ![cur].log = IF ok THEN @
                                       ELSE Append(@, "Failed to answer callback query")]
  /\ cur' = IF afterAnswer(ok) = "edit" THEN cur ELSE 0
  /\ UNCHANGED <<pc, allCmdsV, shortCmdsMap, cmdsMap, chat, codec, canvas, quota>>

\* lines 123-131: b.EditMessageText(message, options); a deleted message cannot be edited
pcqEdit(ok) ==
  /\ pc = "running"
  /\ cur # 0
  /\ sels[cur].hpc = "edit"
  /\ ok => ~chat[sels[cur].msgId].deleted
  /\ sels' = [sels EXCEPT ![cur].hpc = "done", ![cur].edited = Outcome(ok),
                          ![cur].result = ok,
                          ![cur].log = IF ok THEN @
                                       ELSE Append(@, "Failed to edit message text")]
  /\ chat' = IF ok
               THEN [chat EXCEPT ![sels[cur].msgId].text = sels[cur].message,
                                 ![sels[cur].msgId].markup = {}]
               ELSE chat
  /\ cur' = 0
  /\ UNCHANGED <<pc, allCmdsV, shortCmdsMap, cmdsMap, codec, canvas, quota>>

(***************************************************************************)
(* processImage, the goroutine of one selection.                           *)
(***************************************************************************)
IsSpace(ch) == ch \in {" ", "\n", "\t", "\r"}

RECURSIVE TrimLeft(_)
TrimLeft(s) == IF s # <<>> /\ IsSpace(Head(s)) THEN TrimLeft(Tail(s)) ELSE s

RECURSIVE TrimRight(_)
TrimRight(s) ==
  IF s # <<>> /\ IsSpace(s[Len(s)]) THEN TrimRight(SubSeq(s, 1, Len(s) - 1)) ELSE s

\* strings.TrimSpace(s)
TrimSpace(s) == TrimRight(TrimLeft(Flatten(s)))

\* strings.Join(strs, sep)
RECURSIVE Join(_, _)
Join(strs, sep) ==
  IF strs = <<>> THEN <<>>
  ELSE IF Len(strs) = 1 THEN strs[1]
  ELSE strs[1] \o sep \o Join(Tail(strs), sep)

\* the texts a vision service returns: none, a blank one, a word
ServiceTexts == { <<>>, <<" ">>, <<"a">> }

\* the lists of at most MaxItems of them
RECURSIVE TextLists(_)
TextLists(n) ==
  IF n = 0 THEN { <<>> }
  ELSE TextLists(n - 1) \cup
       { Append(l, t) : l \in { x \in TextLists(n - 1) : Len(x) = n - 1 }, t \in ServiceTexts }

\* fmt.Sprintf("%s (%.3f%%)", text, confidence*100.0) for a confidence of 0.9
WithConfidence(text) == text \o <<" (90.000%)">>

MapWithConfidence(texts) == [i \in DOMAIN texts |-> WithConfidence(texts[i])]

\* line 483: the captions, one per line, then the tags in parentheses
describeMessage(captions, tags) ==
  Join(MapWithConfidence(captions), <<"\n">>) \o <<"\n", "\n", "(">>
    \o Join(tags, <<",", " ">>) \o <<")">>

\* line 506
ocrMessage(words) == Join(words, <<" ">>) \o <<"\n">>

\* line 525
handwrittenMessage(lines) == Join(lines, <<" ">>)

\* line 544
tagMessage(tags) == Join(MapWithConfidence(tags), <<"\n">>)

FaceCommands == {Face, CensorEyes, MaskFaces}
TextCommands == {Describe, Ocr, Handwritten, Tag}

\* what the vision service of a command answers: an error, or a result
\* (for the face services the result is whether any instance was found)
Analyses(command) ==
  IF command = Emotion \/ command \in FaceCommands
    THEN { [err |-> TRUE, found |-> FALSE, message |-> ZeroString],
           [err |-> FALSE, found |-> FALSE, message |-> ZeroString],
           [err |-> FALSE, found |-> TRUE, message |-> ZeroString] }
  ELSE { [err |-> TRUE, found |-> FALSE, message |-> ZeroString] } \cup
       { [err |-> FALSE, found |-> TRUE, message |-> msg] : msg \in
           CASE command = Describe ->
                  { describeMessage(c, t) : c \in TextLists(MaxItems), t \in TextLists(MaxItems) }
             [] command = Ocr -> { ocrMessage(w) : w \in TextLists(MaxItems) }
             [] command = Handwritten -> { handwrittenMessage(l) : l \in TextLists(MaxItems) }
             [] command = Tag -> { tagMessage(t) : t \in TextLists(MaxItems) }
             [] OTHER -> {} }

\* the error messages of the switch; the cause after the colon is left out
AnalysisFailed(command) ==
  CASE command = Emotion -> "Failed to recognize emotion"
    [] command \in FaceCommands -> "Failed to detect faces"
    [] command = Describe -> "Failed to describe image"
    [] command = Ocr -> "Failed to recognize text"
    [] command = Handwritten -> "Failed to recognize handwritten text"
    [] command = Tag -> "Failed to tag image"
    [] OTHER -> "Command not supported"

\* the else branches of the empty results left without an errorMessage
NothingFoundAlt(command) == ""

\* the errorMessage of a call that succeeded with nothing in its result
NothingFound(command) ==
  CASE command = Emotion -> "No emotion recognized on this image."
    [] command \in FaceCommands -> "No face detected on this image."
    [] command = Describe -> "Could not describe given image."
    [] command = Ocr -> "Could not recognize any text from given image."
    [] command = Handwritten -> "Could not recognize any text from given image."
    [] command = Tag -> "Could not tag given image."
    [] OTHER -> "Command not supported"

SendTextFailed(command) ==
  CASE command = Emotion -> "Failed to send emotions"
    [] command \in FaceCommands -> "Failed to send faces"
    [] command = Describe -> "Failed to send described text"
    [] command = Ocr -> "Failed to send recognized text"
    [] command = Handwritten -> "Failed to send recognized text"
    [] command = Tag -> "Failed to send tags"
    [] OTHER -> "Command not supported"

\* a report for every operation that draws on the faces
reportTextAlt(command) ==
  IF command \in {Emotion} \cup FaceCommands
    THEN <<"[Face #1]">>
    ELSE ZeroString

\* lines 235-237 and 447-455: the options of the SendMessage of the result text
replyToFor(command) ==
  IF command \in {Emotion, Face} THEN "photo" ELSE "none"

\* the text report of the Emotion and Face commands begins with its first heading
reportText(command) ==
  IF command \in {Emotion, Face}
    THEN <<"[Face #1]">>
    ELSE ZeroString

TaskAt(i, at) ==
  /\ pc = "running"
  /\ i \in DOMAIN sels
  /\ sels[i].task.tpc = at

\* the task of selection i goes on at tpc with message and errorMessage, having done ev
TaskStep(i, ev, tpc, message, errorMessage) ==
  [sels EXCEPT ![i].task.tpc = tpc,
               ![i].task.message = message,
               ![i].task.errorMessage = errorMessage,
               ![i].task.out = @ \o ev]

\* lines 144-147 and the service call of the command's case; default: lines 557-558
tAnalyze(i) ==
  /\ TaskAt(i, "analyze")
  /\ LET t == sels[i].task
         c == t.command
     IN IF c # Emotion /\ c \notin FaceCommands /\ c \notin TextCommands
          THEN sels' = TaskStep(i, <<>>, "delete", t.message, AnalysisFailed(c))
          ELSE \E a \in Analyses(c) :
                 sels' =
                   IF a.err
                     THEN TaskStep(i, <<<<"analyze", "err">>>>, "delete", t.message,
                                   AnalysisFailed(c))
                   ELSE IF c \in TextCommands
                     THEN IF Len(TrimSpace(a.message)) > 0
                            THEN TaskStep(i, <<<<"analyze", "ok">>>>, "sendtext", a.message, "")
                            ELSE TaskStep(i, <<<<"analyze", "empty">>>>, "delete", a.message,
                                          NothingFound(c))
                   ELSE IF a.found
                     THEN TaskStep(i, <<<<"analyze", "ok">>>>, "image", t.message, "")
                     ELSE TaskStep(i, <<<<"analyze", "empty">>>>, "delete", t.message,
                                   NothingFound(c))
  /\ UNCHANGED <<pc, allCmdsV, shortCmdsMap, cmdsMap, chat, cur, codec, canvas, quota>>

ImageOutcomes == {"openFailed", "decodeFailed", "encodeFailed", "encoded"}

\* lines 153-230 and 260-441: http.Get, image.Decode, the drawing, jpeg.Encode
tImage(i, outcome) ==
  /\ TaskAt(i, "image")
  /\ outcome \in ImageOutcomes
  /\ LET t == sels[i].task
         c == t.command
     IN sels' =
          CASE outcome = "openFailed" ->
                 TaskStep(i, <<<<"open", FALSE>>>>, "delete", t.message, "Failed to open image")
            [] outcome = "decodeFailed" ->
                 TaskStep(i, <<<<"open", TRUE>>>>, "delete", t.message, "Failed to decode image")
            [] outcome = "encodeFailed" ->
                 TaskStep(i, <<<<"open", TRUE>>, <<"render", c>>>>, "delete", reportText(c),
                          IF c = Emotion THEN "" ELSE "Failed to encode image")
            [] outcome = "encoded" ->
                 TaskStep(i, <<<<"open", TRUE>>, <<"render", c>>>>, "sendphoto", reportText(c), "")
  /\ UNCHANGED <<pc, allCmdsV, shortCmdsMap, cmdsMap, chat, cur, codec, canvas, quota>>

\* lines 231-242 and 442-461: b.SendPhotoWithBytes
tSendPhoto(i, ok) ==
  /\ TaskAt(i, "sendphoto")
  /\ LET t == sels[i].task
         c == t.command
     IN sels' =
          IF ~ok
            THEN TaskStep(i, <<<<"sendphoto", FALSE>>>>, "delete", t.message,
                          "Failed to send image")
          ELSE IF c = Emotion \/ StrLen(t.message) > 0
            THEN TaskStep(i, <<<<"sendphoto", TRUE>>>>, "sendtext", t.message, "")
            ELSE TaskStep(i, <<<<"sendphoto", TRUE>>>>, "delete", t.message, "")
  /\ UNCHANGED <<pc, allCmdsV, shortCmdsMap, cmdsMap, chat, cur, codec, canvas, quota>>

\* b.SendMessage(chatId, message, ...) of the result text
tSendText(i, ok) ==
  /\ TaskAt(i, "sendtext")
  /\ LET t == sels[i].task
     IN sels' = [TaskStep(i, <<<<"sendtext", ok>>>>, "delete", t.message,
                          IF ok THEN "" ELSE SendTextFailed(t.command))
                   EXCEPT ![i].task.replyTo = replyToFor(t.command)]
  /\ UNCHANGED <<pc, allCmdsV, shortCmdsMap, cmdsMap, chat, cur, codec, canvas, quota>>

\* lines 561-562: b.DeleteMessage(chatId, messageIdToDelete)
tDelete(i) ==
  /\ TaskAt(i, "delete")
  /\ LET t == sels[i].task
     IN /\ sels' = TaskStep(i, <<<<"delete", t.messageIdToDelete>>>>,
                            IF t.errorMessage # "" THEN "report" ELSE "done",
                            t.message, t.errorMessage)
        /\ chat' = [chat EXCEPT ![t.messageIdToDelete].deleted = TRUE]
  /\ UNCHANGED <<pc, allCmdsV, shortCmdsMap, cmdsMap, cur, codec, canvas, quota>>

\* lines 564-569: b.SendMessage(chatId, errorMessage, nil) and logError
tReport(i) ==
  /\ TaskAt(i, "report")
  /\ LET t == sels[i].task
     IN sels' = TaskStep(i, <<<<"senderror", t.errorMessage>>>>, "done", t.message,
                         t.errorMessage)
  /\ UNCHANGED <<pc, allCmdsV, shortCmdsMap, cmdsMap, chat, cur, codec, canvas, quota>>

(***************************************************************************)
(* The drawing loop of the case Face, CensorEyes, MaskFaces of             *)
(* processImage (lines 274-426), one face per step.  A face is what the    *)
(* loop reads of it: the names of the landmarks f.FaceLandmarks holds, and *)
(* the width of f.FaceRectangle.  What is drawn for a face is a record of  *)
(* marks.                                                                  *)
(***************************************************************************)
\* the keys of the call of hasAllKeys of lines 314-320
FaceKeys == <<"noseTip", "pupilRight", "pupilLeft", "mouthRight", "mouthLeft">>

\* the list of lines 380-387 with its last key forgotten
EyeKeysAlt ==
  <<"eyeLeftTop", "eyeLeftBottom", "eyeLeftOuter", "eyeRightTop", "eyeRightBottom">>

\* the keys of the call of hasAllKeys of lines 380-387
EyeKeys ==
  <<"eyeLeftTop", "eyeLeftBottom", "eyeLeftOuter", "eyeRightTop", "eyeRightBottom",
    "eyeRightOuter">>

Range(seq) == { seq[k] : k \in DOMAIN seq }

\* a test that is content with one of the keys
hasAllKeysAlt(keys, points) == \E k \in DOMAIN keys : keys[k] \in points

\* hasAllKeys(keys, points): points is the set of the keys of the map
RECURSIVE hasAllKeys(_, _)
hasAllKeys(keys, points) ==
  IF keys = <<>> THEN TRUE
  ELSE IF Head(keys) \notin points THEN FALSE
  ELSE hasAllKeys(Tail(keys), points)

\* max(x, y)
Max(x, y) == IF x >= y THEN x ELSE y

\* the block size kept from falling below 1
pixelateSizeAlt(width) == Max(1, width \div 8)

\* gift.Pixelate(rect.Width / 8): the division of Go ints, rect.Width >= 0
pixelateSize(width) == width \div 8

\* lines 34-41: yellow, cyan, purple, green, blue, red as R, G, B, A
colors ==
  << <<255, 255, 0, 255>>, <<0, 255, 255, 255>>, <<255, 0, 255, 255>>,
     <<0, 255, 0, 255>>, <<0, 0, 255, 255>>, <<255, 0, 0, 255>> >>

\* a cycle that leaves the last colour out
colorForIndexAlt(i) ==
  LET length == Len(colors) - 1
  IN colors[(i % length) + 1]

\* lines 586-589: colors[i%length]; the sequence is indexed from 1
colorForIndex(i) ==
  LET length == Len(colors)
  IN colors[(i % length) + 1]

\* the keys of the score maps of the services, as their documentation lists them
ScoreNames ==
  <<"anger", "contempt", "disgust", "fear", "happiness", "neutral", "sadness", "surprise">>

HairNames == <<"moustache", "beard", "sideburns">>

PoseNames == <<"roll", "yaw", "pitch">>

\* the first n of the names, or all of them
FirstKeys(names, n) == { names[k] : k \in 1..(IF n < Len(names) THEN n ELSE Len(names)) }

\* the orders in which a range statement may visit the keys of a map: the
\* language leaves the order unspecified, and it may differ from run to run
Orders(keys) ==
  { o \in [1..Cardinality(keys) -> keys] :
      \A a, b \in 1..Cardinality(keys) : a # b => o[a] # o[b] }

\* the number counted from zero
faceNumberAlt(i) == i

\* i+1 of lines 198, 217, 305 and 372
faceNumber(i) == i + 1

\* fmt.Sprintf("Face #%d", i+1)
labelText(i) == <<"Face #", ToString(faceNumber(i))>>

\* the first line of fmt.Sprintf("[Face #%d]\n...", i+1, ...)
headingText(i) == <<"[Face #", ToString(faceNumber(i)), "]">>

\* fmt.Sprintf("  %s: %.3f%%", k, v*100.0) for each key in the order visited, v = 0.5
scoreLines(order) == [n \in DOMAIN order |-> <<"  ", order[n], ": ", "50.000%">>]

\* fmt.Sprintf("  %s: %.2f°", k, v) for each key in the order visited, v = 0
poseLines(order) == [n \in DOMAIN order |-> <<"  ", order[n], ": ", "0.00°">>]

\* lines 365-377: the section of a face of the Face command
faceSection(i, ord) ==
  headingText(i)
    \o <<"\n", "> Facial Hair", "\n">> \o Join(scoreLines(ord.facialHair), <<"\n">>)
    \o <<"\n", "> Head Pose", "\n">> \o Join(poseLines(ord.headPose), <<"\n">>)
    \o <<"\n", "> Emotion", "\n">> \o Join(scoreLines(ord.scores), <<"\n">>)

\* nothing drawn for a face
NoMarks ==
  [box |-> FALSE, label |-> FALSE, circles |-> {}, mouthLine |-> FALSE,
   section |-> FALSE, mask |-> FALSE, pixelated |-> FALSE, size |-> 0,
   color |-> <<>>, labelText |-> ZeroString, text |-> ZeroString]

\* one pass of the body of: for i, f := range faces (lines 274-425), and of
\* for i, e := range emotions (lines 175-208); ord is the order in which the
\* range statements of this pass visit the keys of the maps
drawFace(command, i, f, ord) ==
  CASE command = Face ->
         LET marked == hasAllKeys(FaceKeys, f.landmarks)
         IN [NoMarks EXCEPT !.box = TRUE, !.label = TRUE,
                            !.color = colorForIndex(i),
                            !.labelText = labelText(i),
                            !.circles = IF marked
                                          THEN {"noseTip", "pupilRight", "pupilLeft"}
                                          ELSE {},
                            !.mouthLine = marked,
                            !.section = TRUE,
                            !.text = faceSection(i, ord)]
    [] command = Emotion ->
         [NoMarks EXCEPT !.box = TRUE, !.label = TRUE,
                         !.color = colorForIndex(i),
                         !.labelText = labelText(i),
                         !.text = Join(scoreLines(ord.scores), <<"\n">>)]
    [] command = CensorEyes ->
         [NoMarks EXCEPT !.mask = hasAllKeys(EyeKeys, f.landmarks)]
    [] command = MaskFaces ->
         [NoMarks EXCEPT !.pixelated = TRUE, !.size = pixelateSize(f.width)]
    [] OTHER -> NoMarks

\* the landmarks the face service may return: all of them but at most
\* MaxMissing, or none
AllLandmarks == Range(FaceKeys) \cup Range(EyeKeys)

LandmarkSets ==
  { AllLandmarks \ S : S \in { T \in SUBSET AllLandmarks : Cardinality(T) <= MaxMissing } }
    \cup { {} }

\* math.Abs
Abs(x) == IF x < 0 THEN -x ELSE x

\* math.Sqrt on the squares of whole numbers: the points of the model are
\* chosen so that every distance taken is a whole number
Sqrt(n) == CHOOSE r \in 0..n : r * r = n

\* math.Sqrt(math.Pow(p.X-q.X, 2.0) + math.Pow(p.Y-q.Y, 2.0))
Distance(p, q) == Sqrt((p.X - q.X) * (p.X - q.X) + (p.Y - q.Y) * (p.Y - q.Y))

\* the left eye taken as the reference on a tie as well
leftIsReferenceAlt(lEyeHeight, rEyeHeight) == lEyeHeight >= rEyeHeight

\* line 611: if lEyeHeight > rEyeHeight
leftIsReference(lEyeHeight, rEyeHeight) == lEyeHeight > rEyeHeight

\* lines 603-623.  The coordinates of the arguments are whole numbers; dX, dY
\* and the coordinates of the results are in tenths, so that the products by
\* 0.2 and 0.3 are exact
genMaskPoints(lt, lb, lo, rt, rb, ro) ==
  LET lEyeHeight == Distance(lt, lb)
      rEyeHeight == Distance(rt, rb)
      eyesWidth == Distance(lo, ro)
      marginX == eyesWidth * 2
      marginY == Max(lEyeHeight, rEyeHeight) * 3
      left == leftIsReference(lEyeHeight, rEyeHeight)
      dX == IF left
              THEN 10 * Max(Abs(lt.X - lo.X), Abs(lb.X - lo.X)) + marginX
              ELSE 10 * Max(Abs(rt.X - ro.X), Abs(rb.X - ro.X)) + marginX
      dY == IF left
              THEN 10 * Max(Abs(lt.Y - lo.Y), Abs(lb.Y - lo.Y)) + marginY
              ELSE 10 * Max(Abs(rt.Y - ro.Y), Abs(rb.Y - ro.Y)) + marginY
  IN [lu |-> [X |-> 10 * lt.X - dX, Y |-> 10 * lt.Y - dY],
      ll |-> [X |-> 10 * lb.X - dX, Y |-> 10 * lb.Y + dY],
      rl |-> [X |-> 10 * rb.X + dX, Y |-> 10 * rb.Y + dY],
      ru |-> [X |-> 10 * rt.X + dX, Y |-> 10 * rt.Y - dY],
      dX |-> dX, dY |-> dY]

\* the points of the landmarks, and the pairs of them a whole number apart
Grid == [X : 0..MaxCoord, Y : 0..MaxCoord]

IsSquare(n) == \E r \in 0..n : r * r = n

PointPairs ==
  { pq \in Grid \X Grid :
      IsSquare((pq[1].X - pq[2].X) * (pq[1].X - pq[2].X)
                 + (pq[1].Y - pq[2].Y) * (pq[1].Y - pq[2].Y)) }

\* a face or an emotion of a detection result: what the loops read of it
NoAttributes == [scores |-> {}, facialHair |-> {}, headPose |-> {}]

AttributeSets(n) ==
  [scores : {FirstKeys(ScoreNames, n)}, facialHair : {FirstKeys(HairNames, n)},
   headPose : {FirstKeys(PoseNames, n)}]

\* the faces a command is run on: MaskFaces reads the rectangle only, Face and
\* CensorEyes mark what the landmarks say, Emotion reads the scores; the maps
\* of the attributes hold one entry each
Faces(command) ==
  CASE command = MaskFaces ->
         [landmarks : {AllLandmarks}, width : 0..MaxWidth, attributes : {NoAttributes}]
    [] command = Emotion ->
         [landmarks : {{}}, width : {MaxWidth}, attributes : AttributeSets(1)]
    [] command = Face ->
         [landmarks : LandmarkSets, width : {MaxWidth}, attributes : AttributeSets(1)]
    [] OTHER ->
         [landmarks : LandmarkSets, width : {MaxWidth}, attributes : {NoAttributes}]

\* faces that differ in having attributes or none, for the long results
NumberedFaces(command) ==
  [landmarks : {IF command = Face THEN AllLandmarks ELSE {}}, width : {MaxWidth},
   attributes : AttributeSets(1) \cup {NoAttributes}]

\* faces whose maps hold MaxScores entries each
ScoredFaces(command) ==
  [landmarks : {IF command = Face THEN AllLandmarks ELSE {}}, width : {MaxWidth},
   attributes : AttributeSets(MaxScores)]

\* the orders of one pass over the maps of face f
MapOrders(f) ==
  [scores : Orders(f.attributes.scores), facialHair : Orders(f.attributes.facialHair),
   headPose : Orders(f.attributes.headPose)]

\* lines 213-223 and 429-434: the sections and the message
reportOf(command, marks) ==
  LET strs ==
        CASE command = Emotion ->
               [k \in DOMAIN marks |-> headingText(k - 1) \o <<"\n">> \o marks[k].text]
          [] command = Face -> [k \in DOMAIN marks |-> marks[k].text]
          [] OTHER -> <<>>
  IN [strs |-> strs, message |-> Join(strs, <<"\n", "\n">>)]

CanvasIdle ==
  [step |-> "off", command |-> ZeroString,
   face |-> [landmarks |-> {}, width |-> 0, attributes |-> NoAttributes],
   marks |-> <<>>, errorMessage |-> "",
   index |-> 0, color |-> <<>>, colorNext |-> <<>>,
   limit |-> 0, runs |-> 1, again |-> <<>>,
   strs |-> <<>>, message |-> ZeroString, messageAgain |-> ZeroString,
   eyes |-> <<>>, mask |-> <<>>]

\* line 397: lu, ll, rl, ru := genMaskPoints(lt, lb, lo, rt, rb, ro)
rMask ==
  /\ canvas.step = "eyes"
  /\ LET e == canvas.eyes
     IN canvas' = [canvas EXCEPT !.step = "masked",
                                 !.mask = genMaskPoints(e.lt, e.lb, e.lo, e.rt, e.rb, e.ro)]
  /\ UNCHANGED <<pc, allCmdsV, shortCmdsMap, cmdsMap, chat, sels, cur, codec, quota>>

\* colorForIndex called on an index and on the index one cycle further
rColor ==
  /\ canvas.step = "index"
  /\ canvas' = [canvas EXCEPT !.step = "coloured",
                              !.color = colorForIndex(canvas.index),
                              !.colorNext = colorForIndex(canvas.index + Len(colors))]
  /\ UNCHANGED <<pc, allCmdsV, shortCmdsMap, cmdsMap, chat, sels, cur, codec, quota>>

\* lines 274-425: the loop body on the next face of the result
\* ord2 is the order of the same pass of a second run on the same result
rDraw(f, ord, ord2) ==
  /\ canvas.step = "loop"
  /\ Len(canvas.marks) < canvas.limit
  /\ canvas.runs = 1 => ord2 = ord
  /\ LET i == Len(canvas.marks)
     IN canvas' = [canvas EXCEPT !.face = f,
                                 !.marks = Append(@, drawFace(canvas.command, i, f, ord)),
                                 !.again = IF canvas.runs = 1 THEN @
                                           ELSE Append(@, drawFace(canvas.command, i, f, ord2))]
  /\ UNCHANGED <<pc, allCmdsV, shortCmdsMap, cmdsMap, chat, sels, cur, codec, quota>>

\* line 426: gc.Save(), after the last of the len(faces) > 0 faces
rSave ==
  /\ canvas.step = "loop"
  /\ Len(canvas.marks) > 0
  /\ canvas' = [canvas EXCEPT !.step = "saved",
                              !.strs = reportOf(canvas.command, canvas.marks).strs,
                              !.message = reportOf(canvas.command, canvas.marks).message,
                              !.messageAgain =
                                 IF canvas.runs = 1 THEN @
                                 ELSE reportOf(canvas.command, canvas.again).message]
  /\ UNCHANGED <<pc, allCmdsV, shortCmdsMap, cmdsMap, chat, sels, cur, codec, quota>>

(***************************************************************************)
(* init, and the bot from start-up on.                                     *)
(***************************************************************************)
NoQuota == [subs |-> 0, sels |-> 0]

CodecIdle ==
  [step |-> "off", op |-> ZeroString, ref |-> ZeroString, token |-> ZeroString,
   canceled |-> FALSE, command |-> ZeroString, fileId |-> ZeroString]

\* lines 143-149 of init
init ==
  /\ pc = "boot"
  /\ LET maps == initLoop(allCmdsV, EmptyMap, EmptyMap)
     IN /\ shortCmdsMap' = maps.shortCmdsMap
        /\ cmdsMap' = maps.cmdsMap
  /\ pc' = "running"
  /\ UNCHANGED <<allCmdsV, chat, sels, cur, codec, canvas, quota>>

Init ==
  /\ pc = "boot"
  /\ allCmdsV = allCmds
  /\ shortCmdsMap = EmptyMap
  /\ cmdsMap = EmptyMap
  /\ chat = <<>>
  /\ sels = <<>>
  /\ cur = 0
  /\ codec = CodecIdle
  /\ canvas = CanvasIdle
  /\ quota = [subs |-> MaxSubmissions, sels |-> MaxSelections]

\* the steps of a handler under way, and of the tasks
Answering ==
  \/ \E ok \in BOOLEAN : pcqAnswer(ok)
  \/ \E ok \in BOOLEAN : pcqEdit(ok)

Processing ==
  \/ \E i \in DOMAIN sels : tAnalyze(i)
  \/ \E i \in DOMAIN sels, outcome \in ImageOutcomes : tImage(i, outcome)
  \/ \E i \in DOMAIN sels, ok \in BOOLEAN : tSendPhoto(i, ok)
  \/ \E i \in DOMAIN sels, ok \in BOOLEAN : tSendText(i, ok)
  \/ \E i \in DOMAIN sels : tDelete(i)
  \/ \E i \in DOMAIN sels : tReport(i)

\* the user presses any button, or sends a stale token, after pressing cancel buttons only
OnlyCanceled == \A i \in DOMAIN sels : sels[i].data = commandCancel

Next ==
  \/ init
  \/ \E sub \in Submissions, ok \in BOOLEAN : processUpdate(sub, ok)
  \/ \E m \in {x \in DOMAIN chat : IsPrompt(x) /\ OnlyCanceled} :
       \E data \in OfferedTokens(m) \cup StaleTokens, fileOk \in BOOLEAN :
         pcqStart(m, data, fileOk)
  \/ Answering
  \/ Processing

Spec == Init /\ [][Next]_vars

(***************************************************************************)
(* Several selections in flight: the user sends a photo and presses        *)
(* buttons of its prompt, of the commands of PairCommands, the cancel      *)
(* button, or sends the empty token.                                       *)
(***************************************************************************)
PairCommands == {Face, Tag}

PairSubmissions == { sub \in Submissions : HasPhoto(sub) }

PairTokens(m) ==
  { tokenFor(shortCmdsMap, c, SubmissionFileId(chat[chat[m].replyTo].sub)) : c \in PairCommands }
    \cup {commandCancel, TokenEmpty}

InitPair ==
  /\ pc = "boot"
  /\ allCmdsV = allCmds
  /\ shortCmdsMap = EmptyMap
  /\ cmdsMap = EmptyMap
  /\ chat = <<>>
  /\ sels = <<>>
  /\ cur = 0
  /\ codec = CodecIdle
  /\ canvas = CanvasIdle
  /\ quota = [subs |-> 1, sels |-> MaxInFlight]

NextPair ==
  \/ init
  \/ \E sub \in PairSubmissions, ok \in BOOLEAN : processUpdate(sub, ok)
  \/ \E m \in {x \in DOMAIN chat : IsPrompt(x)} :
       \E data \in PairTokens(m), fileOk \in BOOLEAN : pcqStart(m, data, fileOk)
  \/ Answering
  \/ Processing

SpecPair == InitPair /\ [][NextPair]_vars

(***************************************************************************)
(* Updates that arrive while a task is under way: as above, with one more  *)
(* message than prompts are needed.                                        *)
(***************************************************************************)
InitBusy ==
  /\ pc = "boot"
  /\ allCmdsV = allCmds
  /\ shortCmdsMap = EmptyMap
  /\ cmdsMap = EmptyMap
  /\ chat = <<>>
  /\ sels = <<>>
  /\ cur = 0
  /\ codec = CodecIdle
  /\ canvas = CanvasIdle
  /\ quota = [subs |-> MaxSubmissions + 1, sels |-> MaxInFlight]

\* the buttons pressed: one operation and cancel
BusyTokens(m) ==
  {tokenFor(shortCmdsMap, Face, SubmissionFileId(chat[chat[m].replyTo].sub)), commandCancel}

NextBusy ==
  \/ init
  \/ \E sub \in PairSubmissions, ok \in BOOLEAN : processUpdate(sub, ok)
  \/ \E m \in {x \in DOMAIN chat : IsPrompt(x)} :
       \E data \in BusyTokens(m), fileOk \in BOOLEAN : pcqStart(m, data, fileOk)
  \/ Answering
  \/ Processing

SpecBusy == InitBusy /\ [][NextBusy]_vars

(***************************************************************************)
(* init over operation lists other than allCmds: allCmds with commands     *)
(* added in front and behind.                                              *)
(***************************************************************************)
\* "Text Recognition" and "Object Detection" share their first letter with
\* Tag and Ocr; "Adult Content" shares it with no command
ExtraCmds == { <<"Text Recognition">>, <<"Object Detection">>, <<"Adult Content">> }

RECURSIVE ExtraLists(_)
ExtraLists(n) ==
  IF n = 0 THEN { <<>> }
  ELSE ExtraLists(n - 1) \cup
       { Append(l, c) : l \in { x \in ExtraLists(n - 1) : Len(x) = n - 1 }, c \in ExtraCmds }

InitLists ==
  /\ pc = "boot"
  /\ allCmdsV \in { pre \o allCmds \o post :
                      pre \in ExtraLists(MaxExtraCmds), post \in ExtraLists(MaxExtraCmds) }
  /\ shortCmdsMap = EmptyMap
  /\ cmdsMap = EmptyMap
  /\ chat = <<>>
  /\ sels = <<>>
  /\ cur = 0
  /\ codec = CodecIdle
  /\ canvas = CanvasIdle
  /\ quota = NoQuota

NextLists == init

SpecLists == InitLists /\ [][NextLists]_vars

(***************************************************************************)
(* The token round trip: the token of the button genImageInlineKeyboards   *)
(* makes for an operation and a file reference, decoded as                 *)
(* processCallbackQuery decodes the data of a callback query.              *)
(***************************************************************************)
RefAlphabet == {"C", "a"}

RECURSIVE RefsUpTo(_)
RefsUpTo(n) ==
  IF n = 0 THEN { <<>> }
  ELSE RefsUpTo(n - 1) \cup
       { Append(r, ch) : r \in { x \in RefsUpTo(n - 1) : Len(x) = n - 1 }, ch \in RefAlphabet }

\* with them the references that make a token spell the cancel sentinel but for its case
Refs == RefsUpTo(MaxRefLen) \cup { Tail(commandCancel), commandCancel }

InitCodec ==
  /\ pc = "running"
  /\ allCmdsV = allCmds
  /\ shortCmdsMap = initLoop(allCmds, EmptyMap, EmptyMap).shortCmdsMap
  /\ cmdsMap = initLoop(allCmds, EmptyMap, EmptyMap).cmdsMap
  /\ chat = <<>>
  /\ sels = <<>>
  /\ cur = 0
  /\ quota = NoQuota
  /\ canvas = CanvasIdle
  /\ \E i \in DOMAIN allCmds, ref \in Refs :
       codec = [CodecIdle EXCEPT !.step = "input", !.op = allCmds[i], !.ref = ref]

\* the callback data of the button labelled op (genImageInlineKeyboards, lines 574-577)
codecEncode ==
  /\ codec.step = "input"
  /\ LET button == CHOOSE b \in genImageInlineKeyboards(allCmdsV, shortCmdsMap, codec.ref) :
                     b.text = codec.op
     IN codec' = [codec EXCEPT !.step = "encoded", !.token = button.data]
  /\ UNCHANGED <<pc, allCmdsV, shortCmdsMap, cmdsMap, chat, sels, cur, canvas, quota>>

\* processCallbackQuery, lines 89-93
codecDecode ==
  /\ codec.step = "encoded"
  /\ codec.token # <<>>
  /\ codec' = IF codec.token = commandCancel
                THEN [codec EXCEPT !.step = "decoded", !.canceled = TRUE]
                ELSE [codec EXCEPT !.step = "decoded",
                                   !.command = decodeCommand(cmdsMap, codec.token),
                                   !.fileId = decodeFileId(codec.token)]
  /\ UNCHANGED <<pc, allCmdsV, shortCmdsMap, cmdsMap, chat, sels, cur, canvas, quota>>

NextCodec == codecEncode \/ codecDecode

SpecCodec == InitCodec /\ [][NextCodec]_vars

(***************************************************************************)
(* The drawing loop on the faces of a detection result, for each of the    *)
(* three commands of its case.                                             *)
(***************************************************************************)
InitRender ==
  /\ pc = "running"
  /\ allCmdsV = allCmds
  /\ shortCmdsMap = initLoop(allCmds, EmptyMap, EmptyMap).shortCmdsMap
  /\ cmdsMap = initLoop(allCmds, EmptyMap, EmptyMap).cmdsMap
  /\ chat = <<>>
  /\ sels = <<>>
  /\ cur = 0
  /\ codec = CodecIdle
  /\ quota = NoQuota
  /\ \E c \in FaceCommands \cup {Emotion} :
       canvas = [CanvasIdle EXCEPT !.step = "loop", !.command = c, !.limit = MaxFaces]

NextRender ==
  \/ \E f \in Faces(canvas.command) : \E ord \in MapOrders(f) : rDraw(f, ord, ord)
  \/ rSave

SpecRender == InitRender /\ [][NextRender]_vars

(***************************************************************************)
(* The numbering of the faces of a result of up to MaxInstances faces, by  *)
(* the Face and the Emotion command.                                       *)
(***************************************************************************)
InitNumber ==
  /\ pc = "running"
  /\ allCmdsV = allCmds
  /\ shortCmdsMap = initLoop(allCmds, EmptyMap, EmptyMap).shortCmdsMap
  /\ cmdsMap = initLoop(allCmds, EmptyMap, EmptyMap).cmdsMap
  /\ chat = <<>>
  /\ sels = <<>>
  /\ cur = 0
  /\ codec = CodecIdle
  /\ quota = NoQuota
  /\ \E c \in {Face, Emotion} :
       canvas = [CanvasIdle EXCEPT !.step = "loop", !.command = c, !.limit = MaxInstances]

NextNumber ==
  \/ \E f \in NumberedFaces(canvas.command) : \E ord \in MapOrders(f) : rDraw(f, ord, ord)
  \/ rSave

SpecNumber == InitNumber /\ [][NextNumber]_vars

(***************************************************************************)
(* Two runs of the Face or the Emotion command on the same result, face by *)
(* face: each run ranges over the maps of the face in an order of its own. *)
(***************************************************************************)
InitReport ==
  /\ pc = "running"
  /\ allCmdsV = allCmds
  /\ shortCmdsMap = initLoop(allCmds, EmptyMap, EmptyMap).shortCmdsMap
  /\ cmdsMap = initLoop(allCmds, EmptyMap, EmptyMap).cmdsMap
  /\ chat = <<>>
  /\ sels = <<>>
  /\ cur = 0
  /\ codec = CodecIdle
  /\ quota = NoQuota
  /\ \E c \in {Face, Emotion} :
       canvas = [CanvasIdle EXCEPT !.step = "loop", !.command = c, !.limit = MaxFaces,
                                   !.runs = 2]

NextReport ==
  \/ \E f \in ScoredFaces(canvas.command) :
       \E ord \in MapOrders(f), ord2 \in MapOrders(f) : rDraw(f, ord, ord2)
  \/ rSave

SpecReport == InitReport /\ [][NextReport]_vars

(***************************************************************************)
(* genMaskPoints on the eye landmarks of a face.                           *)
(***************************************************************************)
InitMask ==
  /\ pc = "running"
  /\ allCmdsV = allCmds
  /\ shortCmdsMap = initLoop(allCmds, EmptyMap, EmptyMap).shortCmdsMap
  /\ cmdsMap = initLoop(allCmds, EmptyMap, EmptyMap).cmdsMap
  /\ chat = <<>>
  /\ sels = <<>>
  /\ cur = 0
  /\ codec = CodecIdle
  /\ quota = NoQuota
  /\ \E l \in PointPairs, r \in PointPairs, o \in PointPairs :
       canvas = [CanvasIdle EXCEPT !.step = "eyes", !.command = CensorEyes,
                                   !.eyes = [lt |-> l[1], lb |-> l[2], lo |-> o[1],
                                             rt |-> r[1], rb |-> r[2], ro |-> o[2]]]

NextMask == rMask

SpecMask == InitMask /\ [][NextMask]_vars

(***************************************************************************)
(* colorForIndex on the indices 0..MaxIndex.                               *)
(***************************************************************************)
InitColor ==
  /\ pc = "running"
  /\ allCmdsV = allCmds
  /\ shortCmdsMap = initLoop(allCmds, EmptyMap, EmptyMap).shortCmdsMap
  /\ cmdsMap = initLoop(allCmds, EmptyMap, EmptyMap).cmdsMap
  /\ chat = <<>>
  /\ sels = <<>>
  /\ cur = 0
  /\ codec = CodecIdle
  /\ quota = NoQuota
  /\ \E i \in 0..MaxIndex : canvas = [CanvasIdle EXCEPT !.step = "index", !.index = i]

NextColor == rColor

SpecColor == InitColor /\ [][NextColor]_vars

(***************************************************************************)
(* The claims.                                                             *)
(***************************************************************************)
\* C1: token round trip.  For every operation op of allCmds and every file
\* reference ref (the empty one, and those beginning with a code character,
\* included), the token genImageInlineKeyboards builds for (op, ref) is never
\* the cancel sentinel, and processCallbackQuery decodes it to exactly
\* (op, ref).
C1_TokenRoundTrip ==
  /\ codec.step \in {"encoded", "decoded"} => codec.token # commandCancel
  /\ codec.step = "decoded" =>
       /\ ~codec.canceled
       /\ codec.command = codec.op
       /\ codec.fileId = codec.ref

\* a token decoded whose reference begins with a code character: "C" \o "ancel"
C1_Witness ==
  /\ codec.step = "decoded"
  /\ codec.op = CensorEyes
  /\ codec.ref = Tail(commandCancel)
  /\ codec.token = Title(commandCancel)

\* C2: after init the eight operations have pairwise distinct one-character
\* codes, shortCmdsMap and cmdsMap are inverse to each other, and cmdsMap has
\* exactly one entry per operation.
C2_CodesBijective ==
  (pc = "running" /\ allCmdsV = allCmds) =>
    /\ DOMAIN shortCmdsMap = { allCmds[i] : i \in DOMAIN allCmds }
    /\ Cardinality(DOMAIN shortCmdsMap) = Len(allCmds)
    /\ \A c \in DOMAIN shortCmdsMap : Len(shortCmdsMap[c]) = 1
    /\ \A c, d \in DOMAIN shortCmdsMap : c # d => shortCmdsMap[c] # shortCmdsMap[d]
    /\ \A c \in DOMAIN shortCmdsMap : MapGet(cmdsMap, shortCmdsMap[c]) = c
    /\ \A k \in DOMAIN cmdsMap : MapGet(shortCmdsMap, cmdsMap[k]) = k
    /\ Cardinality(DOMAIN cmdsMap) = Len(allCmds)

\* init has run on the operation list of the program
C2_Witness ==
  /\ pc = "running"
  /\ allCmdsV = allCmds
  /\ Cardinality(DOMAIN cmdsMap) = 8

\* two operations of the list share their first character
Collides(cmds) ==
  \E i, j \in DOMAIN cmds : cmds[i] # cmds[j] /\ firstLetter(cmds[i]) = firstLetter(cmds[j])

Exists(i) == i \in DOMAIN sels

\* GetFile was called for selection i
Dereferenced(i) == Exists(i) /\ sels[i].getFile # "none"

\* the go statement ran for selection i
TaskStarted(i) == Exists(i) /\ sels[i].task.tpc # "none"

\* EditMessageText has put the text of selection i in place of the prompt
NoticeEmitted(i) == Exists(i) /\ sels[i].edited = "ok"

\* the task of selection i has done ev
Did(i, ev) == Exists(i) /\ \E k \in DOMAIN sels[i].task.out : sels[i].task.out[k][1] = ev

Count(i, ev) == Cardinality({ k \in DOMAIN sels[i].task.out : sels[i].task.out[k][1] = ev })

\* the task of selection i has sent the user a message: a result or a failure
SentByTask(i) == Did(i, "sendphoto") \/ Did(i, "sendtext") \/ Did(i, "senderror")

\* the first character of the token of selection i is no key of cmdsMap
UnknownCode(i) ==
  /\ sels[i].data # commandCancel
  /\ sels[i].data # <<>>
  /\ <<Flatten(sels[i].data)[1]>> \notin DOMAIN cmdsMap

\* C4 as claimed: a token that is not the cancel sentinel and whose first
\* character is no registered code is rejected: the notice is "Unprocessable
\* message.", GetFile is not called and no task is started.
C4_UnknownRejected ==
  \A i \in DOMAIN sels :
    UnknownCode(i) =>
      /\ sels[i].message = messageUnprocessable
      /\ ~Dereferenced(i)
      /\ ~TaskStarted(i)

\* C4: a token that is not the cancel sentinel and whose first character is no
\* registered code is decoded to the empty command and handled like any other:
\* GetFile is called on the rest of the token; a task is started exactly when
\* GetFile succeeds and the prompt text contains "image", and then the notice
\* is the acknowledgment of the empty command; that task calls no vision
\* service and ends with "Command not supported" after the cleanup deletion.
C4_UnknownRunsEmptyCommand ==
  \A i \in DOMAIN sels :
    UnknownCode(i) =>
      /\ sels[i].command = ZeroString
      /\ sels[i].fileId = Tail(sels[i].data)
      /\ Dereferenced(i)
      /\ TaskStarted(i) <=> (sels[i].getFile = "ok" /\ Contains(sels[i].text, ImageWord))
      /\ sels[i].message =
           IF sels[i].getFile = "fail" THEN messageFailedToGetFile
           ELSE IF Contains(sels[i].text, ImageWord) THEN messageProcessing(ZeroString)
           ELSE messageUnprocessable
      /\ TaskStarted(i) =>
           /\ sels[i].task.command = ZeroString
           /\ ~Did(i, "analyze")
           /\ ~Did(i, "sendphoto") /\ ~Did(i, "sendtext")
           /\ sels[i].task.tpc \in {"report", "done"} =>
                /\ sels[i].task.errorMessage = "Command not supported"
                /\ Count(i, "delete") = 1
           /\ sels[i].task.tpc = "done" => Did(i, "senderror")

\* the task of an unregistered code has reported "Command not supported"
C4_Witness ==
  \E i \in DOMAIN sels :
    /\ UnknownCode(i)
    /\ sels[i].task.tpc = "done"
    /\ sels[i].task.out = <<<<"delete", sels[i].msgId>>, <<"senderror", "Command not supported">>>>
    /\ sels[i].message = messageProcessing(ZeroString)

\* C5: on the empty token processCallbackQuery returns normally with a
\* notice for the user: the process does not crash and no task is started.
C5_EmptyTokenReported ==
  \A i \in DOMAIN sels :
    sels[i].data = <<>> =>
      /\ pc # "crashed"
      /\ sels[i].hpc # "panic"
      /\ sels[i].message # ZeroString
      /\ ~TaskStarted(i)

\* C6: the cancel sentinel is recognized before any decoding: nothing is
\* decoded, GetFile is not called, no task is started and so no vision service
\* is called, the only text the handler puts in place of the prompt is
\* "Canceled.", and it is in place when AnswerCallbackQuery and
\* EditMessageText have succeeded.
C6_CancelFirst ==
  /\ [](\A i \in DOMAIN sels :
          sels[i].data = commandCancel =>
            /\ sels[i].command = ZeroString /\ sels[i].fileId = ZeroString
            /\ ~Dereferenced(i)
            /\ ~TaskStarted(i)
            /\ sels[i].task.out = <<>>
            /\ sels[i].message = messageCanceled
            /\ sels[i].hpc \in {"answer", "edit", "done"}
            /\ sels[i].result <=> NoticeEmitted(i))
  /\ [][\A i \in DOMAIN sels :
          (sels[i].data = commandCancel /\ ~NoticeEmitted(i) /\ NoticeEmitted(i)') =>
            /\ sels[i].answered = "ok"
            /\ chat'[sels[i].msgId].text = messageCanceled
            /\ chat'[sels[i].msgId].markup = {}]_vars

\* a cancel selection handled to its end: "Canceled." stands in place of the prompt
C6_Witness ==
  \E i \in DOMAIN sels :
    /\ sels[i].data = commandCancel
    /\ sels[i].result
    /\ chat[sels[i].msgId].text = messageCanceled

\* the task of selection i sends the user a message in this step
TaskSends(i) == Exists(i) /\ ~SentByTask(i) /\ SentByTask(i)'

\* C7: the acknowledgment is emitted before the task starts, so the user sees
\* it before any result or failure message of the task, in every interleaving.
C7_AckBeforeTaskMessages ==
  [][\A i \in DOMAIN sels : TaskSends(i) => NoticeEmitted(i)]_vars

\* C8: when AnswerCallbackQuery or EditMessageText fails, the selection is
\* aborted: GetFile was not called, no vision service was called and no task
\* was started for it.
C8_FailedAckAborts ==
  \A i \in DOMAIN sels :
    (sels[i].answered = "fail" \/ sels[i].edited = "fail") =>
      /\ ~Dereferenced(i)
      /\ ~TaskStarted(i)
      /\ ~Did(i, "analyze")

\* C9: the side effects of a selection come in the order acknowledgment,
\* GetFile, analysis, rendering, sending of the results, deletion: none comes
\* before one that the order puts ahead of it.
C9_FixedOrder ==
  [][\A i \in DOMAIN sels' :
       /\ (~Dereferenced(i) /\ Dereferenced(i)') => NoticeEmitted(i)
       /\ (~Did(i, "analyze") /\ Did(i, "analyze")') => (NoticeEmitted(i) /\ Dereferenced(i))
       /\ (~Did(i, "render") /\ Did(i, "render")') => Did(i, "analyze")
       /\ (~Did(i, "sendphoto") /\ Did(i, "sendphoto")') => Did(i, "render")
       /\ (~Did(i, "sendtext") /\ Did(i, "sendtext")') => Did(i, "analyze")
       /\ (~Did(i, "delete") /\ Did(i, "delete")') => NoticeEmitted(i)]_vars

\* the steps of the task of selection i
TaskNext(i) ==
  \/ tAnalyze(i)
  \/ \E outcome \in ImageOutcomes : tImage(i, outcome)
  \/ \E ok \in BOOLEAN : tSendPhoto(i, ok)
  \/ \E ok \in BOOLEAN : tSendText(i, ok)
  \/ tDelete(i)
  \/ tReport(i)

\* C10: every task that starts performs the cleanup deletion exactly once,
\* whatever the outcome, and terminates: it deletes at most once, has deleted
\* once when it is past the deletion, and can take a step until it is done.
C10_CleanupThenDone ==
  \A i \in DOMAIN sels :
    TaskStarted(i) =>
      /\ Count(i, "delete") <= 1
      /\ sels[i].task.tpc \in {"report", "done"} => Count(i, "delete") = 1
      /\ sels[i].task.tpc # "done" => ENABLED TaskNext(i)

\* C11 as claimed: the message the cleanup step of a task deletes is the user's
\* submission, the message that carried the image, not the bot's prompt.
C11_DeletesSubmission ==
  \A i \in DOMAIN sels :
    TaskStarted(i) =>
      /\ chat[sels[i].task.messageIdToDelete].from = "user"
      /\ IsImageSubmission(chat[sels[i].task.messageIdToDelete].sub)
      /\ sels[i].task.messageIdToDelete # sels[i].msgId

\* C11: the message the cleanup step of a task deletes is the bot's prompt of
\* the selection, the message that carries the keyboard and then the
\* acknowledgment; the submission it replies to, like every message of the
\* user, is never deleted.
C11_DeletesPrompt ==
  /\ \A i \in DOMAIN sels :
       TaskStarted(i) =>
         /\ sels[i].task.messageIdToDelete = sels[i].msgId
         /\ IsPrompt(sels[i].task.messageIdToDelete)
         /\ chat[sels[i].task.messageIdToDelete].replyTo # sels[i].task.messageIdToDelete
         /\ \A k \in DOMAIN sels[i].task.out :
              sels[i].task.out[k][1] = "delete" => sels[i].task.out[k][2] = sels[i].msgId
         /\ Did(i, "delete") => chat[sels[i].msgId].deleted
  /\ \A m \in DOMAIN chat : chat[m].from = "user" => ~chat[m].deleted

\* a task has deleted the prompt of its selection; the photo it replies to stays
C11_Witness ==
  \E i \in DOMAIN sels :
    /\ Did(i, "delete")
    /\ chat[sels[i].msgId].from = "bot" /\ chat[sels[i].msgId].deleted
    /\ HasPhoto(chat[chat[sels[i].msgId].replyTo].sub)
    /\ ~chat[chat[sels[i].msgId].replyTo].deleted

\* C12: a dispatch token is consumed once: for one prompt at most one task is
\* ever started, also when a second selection of the prompt arrives after the
\* first one was acknowledged: a selection that follows an acknowledged
\* selection of the same prompt which started a task starts none.
C12_TokenConsumedOnce ==
  \A i, j \in DOMAIN sels :
    (i < j /\ sels[i].msgId = sels[j].msgId /\ TaskStarted(i) /\ NoticeEmitted(i)) =>
      ~TaskStarted(j)

\* the token of selection i is decodable: not the cancel sentinel, not empty,
\* and its first character is a key of cmdsMap
Decodable(i) ==
  /\ sels[i].data # commandCancel
  /\ sels[i].data # <<>>
  /\ <<Flatten(sels[i].data)[1]>> \in DOMAIN cmdsMap

\* selection i arrived on a prompt whose text did not contain "image"
Stale(i) == Decodable(i) /\ ~Contains(sels[i].text, ImageWord)

\* C13 as claimed: a decodable token on a prompt whose text does not contain
\* "image" gets the notice "Unprocessable message." and starts no task.
C13_StaleUnprocessable ==
  \A i \in DOMAIN sels :
    Stale(i) =>
      /\ sels[i].message = messageUnprocessable
      /\ ~TaskStarted(i)

\* C13: a decodable token on a prompt whose text does not contain "image"
\* starts no task; GetFile is called first, and the notice is "Unprocessable
\* message." when GetFile succeeds and "Failed to get file from the server."
\* when it fails; that notice stands in place of the prompt once
\* EditMessageText has succeeded.
C13_StaleGuard ==
  \A i \in DOMAIN sels :
    Stale(i) =>
      /\ ~TaskStarted(i)
      /\ sels[i].task.out = <<>>
      /\ Dereferenced(i)
      /\ sels[i].getFile = "ok" => sels[i].message = messageUnprocessable
      /\ sels[i].getFile = "fail" => sels[i].message = messageFailedToGetFile
      /\ (NoticeEmitted(i) /\ cur = 0 /\ i = Len(sels)) =>
           chat[sels[i].msgId].text = sels[i].message

\* an operation token pressed on a canceled prompt: "Unprocessable message." is in place
C13_Witness ==
  \E i \in DOMAIN sels :
    /\ Stale(i)
    /\ sels[i].text = messageCanceled
    /\ sels[i].getFile = "ok"
    /\ NoticeEmitted(i)
    /\ chat[sels[i].msgId].text = messageUnprocessable

\* a submission that bears an image: a photo, or a document whose MIME type
\* starts with "image/"
ImageBearing(sub) ==
  \/ sub.kind = "photo"
  \/ sub.kind = "document" /\ sub.hasMime /\ HasPrefix(sub.mime, ImageMimePrefix)

\* the file id of an image-bearing submission: of the largest size of a photo
FileIdOf(sub) == IF sub.kind = "photo" THEN sub.photo[Len(sub.photo)] ELSE sub.docFileId

\* the replies of processUpdate no selection has touched
FreshReplies ==
  { m \in DOMAIN chat : chat[m].from = "bot" /\ \A i \in DOMAIN sels : sels[i].msgId # m }

\* every reply of processUpdate is the prompt with one control per operation
\* and the cancel control, or the help message without controls
RepliesWellFormed ==
  \A m \in FreshReplies :
    LET sub == chat[chat[m].replyTo].sub
        markup == chat[m].markup
    IN IF ImageBearing(sub)
         THEN /\ chat[m].text = messageActionImage
              /\ Cardinality(markup) = Len(allCmds) + 1
              /\ \A k \in DOMAIN allCmds :
                   /\ Cardinality({ b \in markup : b.text = allCmds[k] }) = 1
                   /\ \E b \in markup :
                        /\ b.text = allCmds[k]
                        /\ b.data = MapGet(shortCmdsMap, allCmds[k]) \o FileIdOf(sub)
              /\ Cardinality({ b \in markup : b.data = commandCancel }) = 1
         ELSE /\ StrLen(chat[m].text) = StrLen(messageHelp)
              /\ chat[m].text = messageHelp
              /\ markup = {}

\* processUpdate has panicked: the process ended, and not on a selection
UpdatePanicked == pc = "crashed" /\ \A i \in DOMAIN sels : sels[i].hpc # "panic"

\* C14: on an image-bearing submission (a photo, or a document whose MIME type
\* starts with "image/") processUpdate emits the prompt with exactly one
\* control per operation of allCmds, carrying the code of the operation
\* followed by the file id of the submission, and one cancel control carrying
\* the sentinel; on any other submission it emits the help message with no
\* controls: it handles every submission, and its replies are of these two forms.
C14_PromptOrHelp == ~UpdatePanicked /\ RepliesWellFormed

\* the service call of the task of selection i succeeded with an empty result
FoundNothing(i) ==
  /\ TaskStarted(i)
  /\ sels[i].task.out # <<>>
  /\ sels[i].task.out[1] = <<"analyze", "empty">>

\* C15: when face detection returns no instance (Face, CensorEyes, MaskFaces)
\* the task sends the notice "No face detected on this image." and sends no
\* image and no report; the image is not even downloaded.
C15_NoFaceNotice ==
  \A i \in DOMAIN sels :
    (FoundNothing(i) /\ sels[i].task.command \in FaceCommands) =>
      /\ sels[i].task.errorMessage = "No face detected on this image."
      /\ ~Did(i, "open") /\ ~Did(i, "render")
      /\ ~Did(i, "sendphoto") /\ ~Did(i, "sendtext")
      /\ sels[i].task.tpc \in {"delete", "report", "done"}
      /\ sels[i].task.tpc = "done" =>
           sels[i].task.out = << <<"analyze", "empty">>, <<"delete", sels[i].msgId>>,
                                 <<"senderror", "No face detected on this image.">> >>

\* a Mask Faces task on a picture without faces has sent the notice and ended
C15_Witness ==
  \E i \in DOMAIN sels :
    /\ FoundNothing(i)
    /\ sels[i].task.command = MaskFaces
    /\ sels[i].task.tpc = "done"
    /\ Did(i, "senderror")

\* the task of selection i has done ev with result r
DidWith(i, ev, r) ==
  Exists(i) /\ \E k \in DOMAIN sels[i].task.out : sels[i].task.out[k] = <<ev, r>>

\* something failed inside the task of selection i: the service call, the
\* opening, the decoding or the encoding of the image, or a sending
Failed(i) ==
  \/ DidWith(i, "analyze", "err")
  \/ DidWith(i, "open", FALSE)
  \/ DidWith(i, "open", TRUE) /\ ~Did(i, "render")
  \/ Did(i, "render") /\ ~Did(i, "sendphoto")
  \/ DidWith(i, "sendphoto", FALSE)
  \/ DidWith(i, "sendtext", FALSE)

\* the user has got a result or a failure message from the task of selection i
Delivered(i) ==
  DidWith(i, "sendphoto", TRUE) \/ DidWith(i, "sendtext", TRUE) \/ Did(i, "senderror")

\* C16: every failure inside a task (service call, opening, decoding or
\* encoding of the image, a sending) ends in a failure message sent to the
\* user, for every operation, Emotion included; no task ends having sent
\* neither a result nor a failure message.
C16_FailuresReported ==
  \A i \in DOMAIN sels :
    sels[i].task.tpc = "done" =>
      /\ Failed(i) => Did(i, "senderror")
      /\ Delivered(i)

\* the message a text operation builds from a result without any text
ZeroMessage(command) ==
  CASE command = Describe -> describeMessage(<<>>, <<>>)
    [] command = Ocr -> ocrMessage(<<>>)
    [] command = Handwritten -> handwrittenMessage(<<>>)
    [] command = Tag -> tagMessage(<<>>)
    [] OTHER -> ZeroString

\* the service call of the text operation of selection i succeeded without any text
ZeroText(i) ==
  /\ TaskStarted(i)
  /\ sels[i].task.command \in TextCommands
  /\ DidWith(i, "analyze", "ok") \/ DidWith(i, "analyze", "empty")
  /\ sels[i].task.message = ZeroMessage(sels[i].task.command)

\* C17: for the text operations (Describe, Ocr, Handwritten, Tag), when the
\* service call succeeds without any text (no captions and no tags, no words,
\* no lines, no tags) the task sends the "Could not ..." notice of the
\* operation and no result text.
C17_ZeroTextNotice ==
  \A i \in DOMAIN sels :
    ZeroText(i) =>
      /\ DidWith(i, "analyze", "empty")
      /\ ~Did(i, "sendtext")
      /\ sels[i].task.tpc # "sendtext"
      /\ sels[i].task.errorMessage = NothingFound(sels[i].task.command)
      /\ sels[i].task.tpc = "done" => Did(i, "senderror")

\* the loop has handled a face of the command: the last one is canvas.face
Drew(command) == canvas.command = command /\ canvas.marks # <<>>

LastMarks == canvas.marks[Len(canvas.marks)]

\* C18: landmark gate of the Face operation: for a face whose landmarks lack
\* one of noseTip, pupilRight, pupilLeft, mouthRight, mouthLeft no marker is
\* drawn, neither a circle nor the mouth line, while its box, its label and
\* its report section are still produced; with all five the three circles
\* and the mouth line are drawn.
C18_LandmarkGate ==
  Drew(Face) =>
    /\ \A k \in DOMAIN canvas.marks :
         canvas.marks[k].box /\ canvas.marks[k].label /\ canvas.marks[k].section
    /\ IF {"noseTip", "pupilRight", "pupilLeft", "mouthRight", "mouthLeft"}
            \subseteq canvas.face.landmarks
         THEN /\ LastMarks.circles = {"noseTip", "pupilRight", "pupilLeft"}
              /\ LastMarks.mouthLine
         ELSE /\ LastMarks.circles = {}
              /\ ~LastMarks.mouthLine

\* a face with every landmark but mouthLeft: box, label and section, no marker
C18_Witness ==
  /\ Drew(Face)
  /\ canvas.face.landmarks = AllLandmarks \ {"mouthLeft"}
  /\ LastMarks.box /\ LastMarks.label /\ LastMarks.section
  /\ LastMarks.circles = {} /\ ~LastMarks.mouthLine

\* C19: eye censoring with partial landmarks: for a face that lacks one of
\* eyeLeftTop, eyeLeftBottom, eyeLeftOuter, eyeRightTop, eyeRightBottom,
\* eyeRightOuter no mask is drawn, and with all six the mask is drawn; the
\* loop raises no error on it and goes on to gc.Save, from where the image is
\* encoded and sent.
C19_PartialEyesNoMask ==
  Drew(CensorEyes) =>
    /\ LastMarks.mask <=>
         {"eyeLeftTop", "eyeLeftBottom", "eyeLeftOuter", "eyeRightTop", "eyeRightBottom",
          "eyeRightOuter"} \subseteq canvas.face.landmarks
    /\ canvas.errorMessage = ""
    /\ canvas.step = "loop" => ENABLED rSave

\* after a face without eyeRightOuter, left unmasked, the next face was masked
\* and the image saved
C19_Witness ==
  /\ Drew(CensorEyes)
  /\ canvas.step = "saved"
  /\ Len(canvas.marks) = 2
  /\ ~canvas.marks[1].mask
  /\ canvas.marks[2].mask
  /\ canvas.face.landmarks = AllLandmarks

\* C20 as claimed: for every face rectangle of width w >= 0 that MaskFaces
\* handles, the block size passed to the pixelation filter is max(1, w div 8),
\* never 0.
C20_BlockSizeAtLeastOne ==
  Drew(MaskFaces) =>
    /\ LastMarks.pixelated
    /\ LastMarks.size = Max(1, canvas.face.width \div 8)
    /\ LastMarks.size # 0

\* C20: for every face rectangle of width w >= 0 that MaskFaces handles, the
\* block size passed to the pixelation filter is w div 8, without a lower
\* limit: it is 0 exactly for the widths below 8.
C20_BlockSizeIsQuotient ==
  Drew(MaskFaces) =>
    /\ LastMarks.pixelated
    /\ LastMarks.size = canvas.face.width \div 8
    /\ 8 * LastMarks.size <= canvas.face.width
    /\ canvas.face.width < 8 * LastMarks.size + 8
    /\ LastMarks.size = 0 <=> canvas.face.width < 8

\* a face rectangle 7 wide, handed to the filter with block size 0
C20_Witness ==
  /\ Drew(MaskFaces)
  /\ canvas.face.width = 7
  /\ LastMarks.pixelated
  /\ LastMarks.size = 0

\* C29: a selection whose GetFile call failed was not a cancel, gets the notice
\* "Failed to get file from the server.", logs the error, starts no task and
\* calls no vision service; the notice stands in place of the prompt once
\* AnswerCallbackQuery and EditMessageText have succeeded.
C29_GetFileFailure ==
  \A i \in DOMAIN sels :
    sels[i].getFile = "fail" =>
      /\ sels[i].data # commandCancel
      /\ sels[i].message = messageFailedToGetFile
      /\ Len(sels[i].log) > 0 /\ sels[i].log[1] = "Failed to get file from url"
      /\ ~TaskStarted(i)
      /\ sels[i].task.out = <<>>
      /\ (NoticeEmitted(i) /\ cur = 0 /\ i = Len(sels)) =>
           /\ chat[sels[i].msgId].text = messageFailedToGetFile
           /\ chat[sels[i].msgId].markup = {}

\* GetFile failed for a known operation on a fresh prompt, and the notice is in place
C29_Witness ==
  \E i \in DOMAIN sels :
    /\ sels[i].getFile = "fail"
    /\ Contains(sels[i].text, ImageWord)
    /\ sels[i].command \in FaceCommands
    /\ NoticeEmitted(i)
    /\ chat[sels[i].msgId].text = messageFailedToGetFile

\* the four notices of processCallbackQuery
Notices ==
  {messageCanceled, messageUnprocessable, messageFailedToGetFile}
    \cup { messageProcessing(c) : c \in Range(allCmds) \cup {ZeroString} }

\* the bot's reply to the user's message k is in the chat
Replied(k) == \E j \in DOMAIN chat : chat[j].from = "bot" /\ chat[j].replyTo = k

\* C30: EditMessageText is attempted at most once per selection, only after
\* AnswerCallbackQuery succeeded and with one of the four notices; the handler
\* returns true exactly when both calls succeeded; processUpdate returns true
\* exactly when its SendMessage succeeded.
C30_HandlerResults ==
  /\ [](\A i \in DOMAIN sels :
          /\ sels[i].edited # "none" =>
               sels[i].answered = "ok" /\ sels[i].message \in Notices
          /\ sels[i].result <=> (sels[i].answered = "ok" /\ sels[i].edited = "ok")
          /\ sels[i].result => sels[i].hpc = "done")
  /\ [][\A i \in DOMAIN sels :
          sels[i].edited # "none" =>
            /\ sels'[i].edited = sels[i].edited
            /\ sels'[i].message = sels[i].message]_vars
  /\ [](\A k \in DOMAIN chat :
          chat[k].from = "user" => (chat[k].result <=> Replied(k)))

\* one selection answered and edited, another answered only; the submission was replied to
C30_Witness ==
  /\ \E i \in DOMAIN sels :
       sels[i].result /\ sels[i].answered = "ok" /\ sels[i].edited = "ok"
  /\ \E i \in DOMAIN sels :
       ~sels[i].result /\ sels[i].answered = "ok" /\ sels[i].edited = "fail"
  /\ \E k \in DOMAIN chat : chat[k].from = "user" /\ chat[k].result

\* C27: shortCmdsMap and cmdsMap are written only by init: once the program
\* runs, no step of a handler or of a task changes them, whatever token is
\* looked up.
C27_MapsReadOnly ==
  [][pc # "boot" => UNCHANGED <<shortCmdsMap, cmdsMap>>]_vars

\* a code that is no key of cmdsMap was looked up, a task ran to its end, and
\* the tables are those init built
C27_Witness ==
  /\ \E i \in DOMAIN sels :
       sels[i].data = TokenUnknown /\ sels[i].task.tpc = "done"
  /\ cmdsMap = initLoop(allCmdsV, EmptyMap, EmptyMap).cmdsMap
  /\ shortCmdsMap = initLoop(allCmdsV, EmptyMap, EmptyMap).shortCmdsMap
  /\ DOMAIN cmdsMap # {}

\* the place of the first event ev in what the task of selection i did, 0 if none
PlaceOf(i, ev) ==
  LET ks == { k \in DOMAIN sels[i].task.out : sels[i].task.out[k][1] = ev }
  IN IF ks = {} THEN 0 ELSE CHOOSE k \in ks : \A j \in ks : k <= j

\* the task of selection i ended having drawn and sent its image without any failure
Succeeded(i) ==
  /\ Exists(i)
  /\ sels[i].task.tpc = "done"
  /\ DidWith(i, "sendphoto", TRUE)
  /\ ~Failed(i)
  /\ ~Did(i, "senderror")

\* C23: of the tasks that draw on the image only those of Face and Emotion
\* send a text; a successful CensorEyes or MaskFaces task has sent one image
\* and no text, a successful Face or Emotion task one image and then one
\* text, the report, as a reply to that image.
C23_ReportOnlyFaceEmotion ==
  \A i \in DOMAIN sels :
    /\ (Did(i, "render") /\ Did(i, "sendtext")) => sels[i].task.command \in {Face, Emotion}
    /\ (Succeeded(i) /\ sels[i].task.command \in {CensorEyes, MaskFaces}) =>
         /\ Count(i, "sendphoto") = 1
         /\ Count(i, "sendtext") = 0
         /\ sels[i].task.message = ZeroString
    /\ (Succeeded(i) /\ sels[i].task.command \in {Face, Emotion}) =>
         /\ Count(i, "sendphoto") = 1
         /\ Count(i, "sendtext") = 1
         /\ PlaceOf(i, "sendphoto") < PlaceOf(i, "sendtext")
         /\ sels[i].task.message # ZeroString
         /\ sels[i].task.replyTo = "photo"

\* a Face task that sent its image and then its report
C23_Witness ==
  \E i \in DOMAIN sels :
    /\ Succeeded(i)
    /\ sels[i].task.command = Face
    /\ DidWith(i, "sendtext", TRUE)
    /\ sels[i].task.replyTo = "photo"

\* the vision call of the task of selection i has not returned
VisionPending(i) == Exists(i) /\ sels[i].task.tpc = "analyze" /\ sels[i].task.out = <<>>

\* C24: whatever the tasks are doing, and in particular while a vision call
\* has not returned, the handler under way can take its next step and end, and
\* between handlers the next message and the next selection can be handled.
C24_HandlerNeverWaits ==
  /\ (pc = "running" /\ cur # 0) => ENABLED Answering
  /\ (pc = "running" /\ cur = 0 /\ quota.subs > 0) =>
       ENABLED (\E sub \in PairSubmissions, ok \in BOOLEAN : processUpdate(sub, ok))
  /\ (pc = "running" /\ cur = 0 /\ quota.sels > 0
        /\ \E m \in DOMAIN chat : IsPrompt(m) /\ ~chat[m].deleted) =>
       ENABLED (\E m \in {x \in DOMAIN chat : IsPrompt(x)} :
                  \E data \in BusyTokens(m), fileOk \in BOOLEAN : pcqStart(m, data, fileOk))

\* the vision call of the first selection has not returned, while its handler
\* has returned, a second image has been received and prompted for, and the
\* cancel pressed later on that prompt has been handled to its end
C24_Witness ==
  /\ Len(sels) = 2 /\ Len(chat) = 4
  /\ VisionPending(1)
  /\ sels[1].hpc = "done"
  /\ sels[1].msgId = 2
  /\ sels[2].data = commandCancel /\ sels[2].msgId = 4 /\ sels[2].result
  /\ chat[4].text = messageCanceled

\* C25: a task that has started is changed by its own steps only, can take a
\* step until it is done whatever updates arrive after its start, and has sent
\* its result or a failure message when it is done.
C25_NoCancellation ==
  /\ [](\A i \in DOMAIN sels :
          TaskStarted(i) =>
            /\ sels[i].task.tpc # "done" => ENABLED TaskNext(i)
            /\ sels[i].task.tpc = "done" => Delivered(i))
  /\ [][\A i \in DOMAIN sels :
          (TaskStarted(i) /\ sels'[i].task # sels[i].task) => TaskNext(i)]_vars

\* C22: colorForIndex(i) is colors[i mod 6], the colour of the index one cycle
\* of six further is the same, and the six colours are pairwise distinct.
C22_ColourCycle ==
  /\ Len(colors) = 6
  /\ \A a, b \in DOMAIN colors : a # b => colors[a] # colors[b]
  /\ canvas.step = "coloured" =>
       /\ canvas.color = colors[(canvas.index % 6) + 1]
       /\ canvas.colorNext = canvas.color

\* an index of a later cycle got the last colour, red
C22_Witness ==
  /\ canvas.step = "coloured"
  /\ canvas.index >= 6
  /\ canvas.index % 6 = 5
  /\ canvas.color = <<255, 0, 0, 255>>
  /\ canvas.colorNext = canvas.color

\* the first n pieces of text s are the pieces of p
StartsWith(s, p) == Len(s) >= Len(p) /\ SubSeq(s, 1, Len(p)) = p

\* C21: with the Face and the Emotion command the face at position k of the
\* result (counted from 1) is boxed and labelled "Face #k" in the colour
\* colors[(k-1) mod 6]; the report has one section per face, the k-th headed
\* "[Face #k]", and is the sections joined by a blank line.
C21_NumberingFollowsOrder ==
  canvas.command \in {Face, Emotion} =>
    /\ \A k \in DOMAIN canvas.marks :
         /\ canvas.marks[k].box /\ canvas.marks[k].label
         /\ canvas.marks[k].color = colors[((k - 1) % 6) + 1]
         /\ canvas.marks[k].labelText = <<"Face #", ToString(k)>>
    /\ canvas.step = "saved" =>
         /\ Len(canvas.strs) = Len(canvas.marks)
         /\ \A k \in DOMAIN canvas.strs :
              StartsWith(canvas.strs[k], <<"[Face #", ToString(k), "]", "\n">>)
         /\ canvas.message = Join(canvas.strs, <<"\n", "\n">>)
         /\ \A k \in DOMAIN canvas.strs :
              \A j \in DOMAIN canvas.strs[k] : canvas.strs[k][j] = "[Face #" => j = 1

\* a result of seven faces reported: the seventh is drawn in the first colour again
C21_Witness ==
  /\ canvas.step = "saved"
  /\ canvas.command = Emotion
  /\ Len(canvas.marks) = 7
  /\ canvas.marks[7].color = canvas.marks[1].color
  /\ canvas.marks[7].labelText = <<"Face #", "7">>
  /\ StartsWith(canvas.strs[7], <<"[Face #", "7", "]">>)
  /\ canvas.marks[2].text # ZeroString

\* C26: two runs on the same detection result send the same report, the order
\* of the score lines inside each section included.
C26_ReportDeterministic ==
  (canvas.runs = 2 /\ canvas.step = "saved") => canvas.messageAgain = canvas.message

\* the square of the distance of two points
Sq(p, q) == (p.X - q.X) * (p.X - q.X) + (p.Y - q.Y) * (p.Y - q.Y)

\* the larger of the absolute values of x and y
MaxAbs(x, y) == IF Abs(x) >= Abs(y) THEN Abs(x) ELSE Abs(y)

\* C28: the reference eye is the left one only when it is strictly higher than
\* the right one; dX and dY are the largest horizontal and vertical offset of
\* the reference eye's top and bottom from its outer point plus 0.2 of the
\* eyes' width and 0.3 of the larger eye height; the corners are leftTop +
\* (-dX,-dY), leftBottom + (-dX,+dY), rightBottom + (+dX,+dY), rightTop +
\* (+dX,-dY); dX and dY are not negative.  Lengths are in tenths.
C28_MaskGeometry ==
  canvas.step = "masked" =>
    LET e == canvas.eyes
        m == canvas.mask
        left == Sq(e.lt, e.lb) > Sq(e.rt, e.rb)
        t == IF left THEN e.lt ELSE e.rt
        b == IF left THEN e.lb ELSE e.rb
        o == IF left THEN e.lo ELSE e.ro
        higher == IF left THEN Sq(e.lt, e.lb) ELSE Sq(e.rt, e.rb)
    IN /\ m.dX >= 0 /\ m.dY >= 0
       /\ (m.dX - 10 * MaxAbs(t.X - o.X, b.X - o.X)) * (m.dX - 10 * MaxAbs(t.X - o.X, b.X - o.X))
            = 4 * Sq(e.lo, e.ro)
       /\ m.dX >= 10 * MaxAbs(t.X - o.X, b.X - o.X)
       /\ (m.dY - 10 * MaxAbs(t.Y - o.Y, b.Y - o.Y)) * (m.dY - 10 * MaxAbs(t.Y - o.Y, b.Y - o.Y))
            = 9 * higher
       /\ m.dY >= 10 * MaxAbs(t.Y - o.Y, b.Y - o.Y)
       /\ m.lu = [X |-> 10 * e.lt.X - m.dX, Y |-> 10 * e.lt.Y - m.dY]
       /\ m.ll = [X |-> 10 * e.lb.X - m.dX, Y |-> 10 * e.lb.Y + m.dY]
       /\ m.rl = [X |-> 10 * e.rb.X + m.dX, Y |-> 10 * e.rb.Y + m.dY]
       /\ m.ru = [X |-> 10 * e.rt.X + m.dX, Y |-> 10 * e.rt.Y - m.dY]

\* eyes of the same height, the left one further from its outer point: the
\* right eye was the reference
C28_Witness ==
  /\ canvas.step = "masked"
  /\ Sq(canvas.eyes.lt, canvas.eyes.lb) = Sq(canvas.eyes.rt, canvas.eyes.rb)
  /\ Sq(canvas.eyes.lt, canvas.eyes.lb) > 0
  /\ Abs(canvas.eyes.lt.X - canvas.eyes.lo.X) > Abs(canvas.eyes.rt.X - canvas.eyes.ro.X)
  /\ canvas.eyes.lb.X = canvas.eyes.lt.X /\ canvas.eyes.rb.X = canvas.eyes.rt.X
  /\ canvas.mask.dX = 10 * Abs(canvas.eyes.rt.X - canvas.eyes.ro.X) + 2
  /\ canvas.mask.dY > 0
====
